---- MODULE Spec2Model ----
(***************************************************************************)
(* Model of the STOX services:                                             *)
(*   stox-seo-service/grpc_server.py    ProductImageAnalyzerServicer       *)
(*   stox-seo-service/health_check.py   check_health                       *)
(*   stox-image-service                 ImageService / ImageServiceServicer*)
(*   stox-image-service logger_config   setup_logger, get_logger           *)
(*   stox-agent/grpc_server.py          SEOAgentServicer and its agent     *)
(*   stox-agent/server.py               the Flask routes                   *)
(*                                                                         *)
(* Texts are TLC strings, read character by character with SubSeq.  The    *)
(* Turkish keywords of the line heuristic are written with ASCII stand-ins *)
(* ("$" for s-cedilla, "!" for dotless i, "#" for c-cedilla, "%" for        *)
(* u-umlaut, "&" for o-umlaut), one character for one character, because   *)
(* the parser accepts ASCII only.                                          *)
(***************************************************************************)
EXTENDS Integers, Sequences, FiniteSets, TLC

(***************************************************************************)
(* Python str primitives                                                   *)
(***************************************************************************)
Ch(s, i) == SubSeq(s, i, i)

Min(S) == CHOOSE k \in S : \A j \in S : k <= j

\* s[k-1:].startswith(pat)
StartsAt(s, pat, k) ==
    /\ k >= 1
    /\ k + Len(pat) - 1 <= Len(s)
    /\ SubSeq(s, k, k + Len(pat) - 1) = pat

\* s.find(pat, from-1) + 1: the first index >= from at which pat occurs, 0 if none
IndexOf(s, pat, from) ==
    LET S == {k \in from..(Len(s) - Len(pat) + 1) : StartsAt(s, pat, k)}
    IN  IF from < 1 \/ S = {} THEN 0 ELSE Min(S)

\* the characters str.strip() removes and the regex class \s matches
Whitespace == {" ", "\n", "\t", "\r", "\f"}

RECURSIVE SkipWs(_, _)
SkipWs(s, i) == IF i <= Len(s) /\ Ch(s, i) \in Whitespace THEN SkipWs(s, i + 1) ELSE i

RECURSIVE SkipBack(_, _, _)
SkipBack(s, i, cs) == IF i >= 1 /\ Ch(s, i) \in cs THEN SkipBack(s, i - 1, cs) ELSE i

RECURSIVE SkipFwd(_, _, _)
SkipFwd(s, i, cs) == IF i <= Len(s) /\ Ch(s, i) \in cs THEN SkipFwd(s, i + 1, cs) ELSE i

\* s.strip(cs)
StripChars(s, cs) ==
    LET a == SkipFwd(s, 1, cs)
        b == SkipBack(s, Len(s), cs)
    IN  IF a > b THEN "" ELSE SubSeq(s, a, b)

\* s.strip()
Strip(s) == StripChars(s, Whitespace)

UpperCase == "ABCDEFGHIJKLMNOPQRSTUVWXYZ"
LowerCase == "abcdefghijklmnopqrstuvwxyz"
UpperLetters == {Ch(UpperCase, i) : i \in 1..26}
LowerOf == [c \in UpperLetters |-> Ch(LowerCase, CHOOSE i \in 1..26 : Ch(UpperCase, i) = c)]

\* c.lower() for one character of the model's alphabet
LowerCh(c) == IF c \in UpperLetters THEN LowerOf[c] ELSE c

\* pat occurs at k when both sides are lower-cased (re.IGNORECASE, str.lower())
MatchCI(s, pat, k) ==
    /\ k >= 1
    /\ k + Len(pat) - 1 <= Len(s)
    /\ \A i \in 1..Len(pat) : LowerCh(Ch(s, k + i - 1)) = LowerCh(Ch(pat, i))

\* keyword in s.lower()
ContainsLower(s, keyword) == \E k \in 1..Len(s) : MatchCI(s, keyword, k)

(***************************************************************************)
(* json.loads                                                              *)
(***************************************************************************)
JsonWs == {" ", "\n", "\t", "\r"}
ControlChars == {"\n", "\t", "\r", "\f"}
Digits == {"0", "1", "2", "3", "4", "5", "6", "7", "8", "9"}
JsonEscape ==
    ("\"" :> "\"") @@ ("\\" :> "\\") @@ ("/" :> "/") @@ ("n" :> "\n")
    @@ ("t" :> "\t") @@ ("r" :> "\r") @@ ("f" :> "\f")

RECURSIVE SkipJsonWs(_, _)
SkipJsonWs(s, i) == IF i <= Len(s) /\ Ch(s, i) \in JsonWs THEN SkipJsonWs(s, i + 1) ELSE i

\* JSONDecodeError
JsonFail == [ok |-> FALSE, pos |-> 0, t |-> "", v |-> "", d |-> <<>>]
\* a decoded value of Python type t (str, NoneType, int, bool, dict, list),
\* ending before pos; v is the text of a str, d the items of a dict
JsonVal(p, t, v, d) == [ok |-> TRUE, pos |-> p, t |-> t, v |-> v, d |-> d]

JsonPut(d, k, x) == [y \in (DOMAIN d) \cup {k} |-> IF y = k THEN x ELSE d[y]]

\* py_scanstring, strict: j is the position after the opening quote
RECURSIVE ScanString(_, _, _)
ScanString(s, j, acc) ==
    IF j > Len(s) THEN JsonFail
    ELSE LET c == Ch(s, j) IN
         IF c = "\"" THEN JsonVal(j + 1, "str", acc, <<>>)
         ELSE IF c = "\\" THEN
              IF j + 1 <= Len(s) /\ Ch(s, j + 1) \in DOMAIN JsonEscape
              THEN ScanString(s, j + 2, acc \o JsonEscape[Ch(s, j + 1)])
              ELSE JsonFail
         ELSE IF c \in ControlChars THEN JsonFail
         ELSE ScanString(s, j + 1, acc \o c)

\* NUMBER_RE: (-?(?:0|[1-9]\d*))(\.\d+)?([eE][-+]?\d+)?
ScanNumber(s, i) ==
    LET a == IF StartsAt(s, "-", i) THEN i + 1 ELSE i
        b == IF StartsAt(s, "0", a) THEN a + 1 ELSE SkipFwd(s, a, Digits)
        f == IF StartsAt(s, ".", b) /\ SkipFwd(s, b + 1, Digits) > b + 1
             THEN SkipFwd(s, b + 1, Digits) ELSE b
        g == IF f <= Len(s) /\ Ch(s, f) \in {"e", "E"}
             THEN IF f + 1 <= Len(s) /\ Ch(s, f + 1) \in {"-", "+"} THEN f + 2 ELSE f + 1
             ELSE f
        e == IF g > f /\ SkipFwd(s, g, Digits) > g THEN SkipFwd(s, g, Digits) ELSE f
    IN  IF b = a THEN JsonFail ELSE JsonVal(e, "int", "", <<>>)

RECURSIVE ScanOnce(_, _), JSONObject(_, _, _), JSONArray(_, _)
\* json.scanner.py_make_scanner._scan_once
ScanOnce(s, i) ==
    IF i > Len(s) THEN JsonFail
    ELSE CASE StartsAt(s, "\"", i) -> ScanString(s, i + 1, "")
           [] StartsAt(s, "{", i) ->
                IF StartsAt(s, "}", SkipJsonWs(s, i + 1))
                THEN JsonVal(SkipJsonWs(s, i + 1) + 1, "dict", "", <<>>)
                ELSE JSONObject(s, SkipJsonWs(s, i + 1), <<>>)
           [] StartsAt(s, "[", i) ->
                IF StartsAt(s, "]", SkipJsonWs(s, i + 1))
                THEN JsonVal(SkipJsonWs(s, i + 1) + 1, "list", "", <<>>)
                ELSE JSONArray(s, SkipJsonWs(s, i + 1))
           [] StartsAt(s, "null", i)  -> JsonVal(i + 4, "NoneType", "", <<>>)
           [] StartsAt(s, "true", i)  -> JsonVal(i + 4, "bool", "", <<>>)
           [] StartsAt(s, "false", i) -> JsonVal(i + 5, "bool", "", <<>>)
           [] Ch(s, i) \in Digits \cup {"-"} -> ScanNumber(s, i)
           [] OTHER -> JsonFail

\* json.decoder.JSONObject, after a value x: "}" ends the object, "," leads to
\* the next key, which must open with a quote
ObjectNext(s, e, d) ==
    IF StartsAt(s, "}", e) THEN JsonVal(e + 1, "dict", "", d)
    ELSE IF StartsAt(s, ",", e) THEN JSONObject(s, SkipJsonWs(s, e + 1), d)
    ELSE JsonFail

ObjectAfterValue(s, key, x, d) ==
    IF ~x.ok THEN JsonFail
    ELSE ObjectNext(s, SkipJsonWs(s, x.pos), JsonPut(d, key, [t |-> x.t, v |-> x.v]))

ObjectAfterKey(s, k, d) ==
    IF ~k.ok \/ ~StartsAt(s, ":", SkipJsonWs(s, k.pos)) THEN JsonFail
    ELSE ObjectAfterValue(s, k.v, ScanOnce(s, SkipJsonWs(s, SkipJsonWs(s, k.pos) + 1)), d)

\* json.decoder.JSONObject: j is the position of the next key's opening quote,
\* d the items read so far (a repeated key keeps its last value)
JSONObject(s, j, d) ==
    IF ~StartsAt(s, "\"", j) THEN JsonFail
    ELSE ObjectAfterKey(s, ScanString(s, j + 1, ""), d)

ArrayNext(s, e) ==
    IF StartsAt(s, "]", e) THEN JsonVal(e + 1, "list", "", <<>>)
    ELSE IF StartsAt(s, ",", e) THEN JSONArray(s, SkipJsonWs(s, e + 1))
    ELSE JsonFail

ArrayAfterValue(s, x) == IF ~x.ok THEN JsonFail ELSE ArrayNext(s, SkipJsonWs(s, x.pos))

\* json.decoder.JSONArray: j is the position of the next element
JSONArray(s, j) == ArrayAfterValue(s, ScanOnce(s, j))

DecodeEnd(s, x) == IF x.ok /\ SkipJsonWs(s, x.pos) = Len(s) + 1 THEN x ELSE JsonFail

\* json.loads(s): JSONDecoder.decode, which rejects extra data after the value
JsonLoads(s) == DecodeEnd(s, ScanOnce(s, SkipJsonWs(s, 1)))

(***************************************************************************)
(* ProductImageAnalyzerServicer._parse_gemini_response: its regular        *)
(* expressions                                                             *)
(***************************************************************************)
\* None and a present value, for Optional results
None == <<>>
Some(x) == <<x>>

\* One match of json_pattern  \{.*?"title".*?"description".*?\}  (re.DOTALL)
\* searched from pos: <<first, last>> or None.  Every .*? is lazy and "."
\* matches any character, so the match starts at the first "{" at or after
\* pos and runs to the first "}" after the first "description" key after the
\* first "title" key; when that chain fails from the first "{" it fails from
\* every later one.
JsonPatternSearch(s, pos) ==
    LET i  == IndexOf(s, "{", pos)
        p1 == IF i = 0 THEN 0 ELSE IndexOf(s, "\"title\"", i + 1)
        p2 == IF p1 = 0 THEN 0 ELSE IndexOf(s, "\"description\"", p1 + 7)
        p3 == IF p2 = 0 THEN 0 ELSE IndexOf(s, "}", p2 + 13)
    IN  IF p3 = 0 THEN None ELSE <<i, p3>>

\* re.findall(json_pattern, response_text, re.DOTALL): the matches, left to
\* right, not overlapping
RECURSIVE JsonFindAll(_, _)
JsonFindAll(s, pos) ==
    LET m == JsonPatternSearch(s, pos)
    IN  IF m = None THEN <<>>
        ELSE <<SubSeq(s, m[1], m[2])>> \o JsonFindAll(s, m[2] + 1)

\* The manual-extraction patterns.  key is matched ignoring case; sp says
\* whether \s* stands between the key and the colon; q is the quote around
\* the captured [^q]+ .
title_patterns == <<
    [key |-> "\"title\"", sp |-> TRUE,  q |-> "\""],
    [key |-> "\"title\"", sp |-> TRUE,  q |-> "'"],
    [key |-> "title",     sp |-> FALSE, q |-> "\""],
    [key |-> "title",     sp |-> FALSE, q |-> "'"] >>

description_patterns == <<
    [key |-> "\"description\"", sp |-> TRUE,  q |-> "\""],
    [key |-> "\"description\"", sp |-> TRUE,  q |-> "'"],
    [key |-> "description",     sp |-> FALSE, q |-> "\""],
    [key |-> "description",     sp |-> FALSE, q |-> "'"] >>

\* position of the opening quote when pattern p matches at k, else 0
QuoteAfterColon(s, p, o) ==
    IF StartsAt(s, p.q, o) /\ IndexOf(s, p.q, o + 1) > o + 1 THEN o ELSE 0

ColonAfterKey(s, p, c) ==
    IF StartsAt(s, ":", c) THEN QuoteAfterColon(s, p, SkipWs(s, c + 1)) ELSE 0

PatternQuoteAt(s, p, k) ==
    IF ~MatchCI(s, p.key, k) THEN 0
    ELSE ColonAfterKey(s, p, IF p.sp THEN SkipWs(s, k + Len(p.key)) ELSE k + Len(p.key))

\* group(1) of the match whose opening quote is at o
Group1(s, p, o) == SubSeq(s, o + 1, IndexOf(s, p.q, o + 1) - 1)

LeftmostOf(s, p, S) ==
    IF S = {} THEN None ELSE Some(Group1(s, p, PatternQuoteAt(s, p, Min(S))))

\* re.search(pattern, s, re.IGNORECASE | re.DOTALL): group(1) of the leftmost
\* match, or None
ReSearch(s, p) == LeftmostOf(s, p, {k \in 1..Len(s) : PatternQuoteAt(s, p, k) > 0})

\* for pattern in patterns: match = re.search(...); if match: value =
\* match.group(1).strip(); break        (value starts as "")
RECURSIVE FirstPattern(_, _, _)
\* mutant of FirstMatch: no break, a later pattern that matches overwrites
FirstMatchNoBreak(s, patterns, n, m) ==
    IF m # None /\ FirstPattern(s, patterns, n + 1) = ""
    THEN Strip(m[1]) ELSE FirstPattern(s, patterns, n + 1)

FirstMatch(s, patterns, n, m) ==
    IF m # None THEN Strip(m[1]) ELSE FirstPattern(s, patterns, n + 1)

FirstPattern(s, patterns, n) ==
    IF n > Len(patterns) THEN "" ELSE FirstMatch(s, patterns, n, ReSearch(s, patterns[n]))

\* s.split('\n') from position from on
RECURSIVE Split(_, _)
Split(s, from) ==
    LET n == IndexOf(s, "\n", from)
    IN  IF n = 0 THEN <<SubSeq(s, from, Len(s))>>
        ELSE <<SubSeq(s, from, n - 1)>> \o Split(s, n + 1)

title_keywords == {"title", "ba$l!k"}
description_keywords == {"description", "a#!klama"}
QuoteComma == {"\"", ",", "'"}

\* colon_split = line.split(':', 1); colon_split[1].strip().strip('",\'')
\* when len(colon_split) > 1, else old
AfterColon(line, old) ==
    LET c == IndexOf(line, ":", 1)
    IN  IF c = 0 THEN old
        ELSE StripChars(Strip(SubSeq(line, c + 1, Len(line))), QuoteComma)

\* one pass of the body of "for line in lines" over <<title, description>>
LineStep(raw, td) ==
    LET line == Strip(raw) IN
    IF td[1] = "" /\ \E kw \in title_keywords : ContainsLower(line, kw)
    THEN <<AfterColon(line, td[1]), td[2]>>
    ELSE IF td[2] = "" /\ \E kw \in description_keywords : ContainsLower(line, kw)
         THEN <<td[1], AfterColon(line, td[2])>>
         ELSE td

RECURSIVE LineLoop(_, _, _)
LineLoop(lines, n, td) ==
    IF n > Len(lines) THEN td ELSE LineLoop(lines, n + 1, LineStep(lines[n], td))

\* The body of "for json_match in json_matches", from match n on, with the
\* locals title and description in td: where the loop ends
\*   ret   - return title, description
\*   raise - .strip() on a value that is no str raises AttributeError, which
\*           "except json.JSONDecodeError" does not catch
\*   next  - the loop is exhausted
\* result.get(key, "") is "" for a missing key.
JsonGet(d, key) == IF key \in DOMAIN d THEN d[key] ELSE [t |-> "str", v |-> ""]

RECURSIVE JsonLoop(_, _, _)
\* lines 183-186, t and d being result.get("title", "") and
\* result.get("description", "")
LoopFields(matches, n, td, t, d) ==
    IF t.t # "str" THEN [end |-> "raise", td |-> td]
    ELSE IF d.t # "str" THEN [end |-> "raise", td |-> <<Strip(t.v), td[2]>>]
    ELSE IF Strip(t.v) # "" /\ Strip(d.v) # ""
         THEN [end |-> "ret", td |-> <<Strip(t.v), Strip(d.v)>>]
         ELSE JsonLoop(matches, n + 1, <<Strip(t.v), Strip(d.v)>>)

\* lines 181-188, result being json.loads(json_match)
LoopBody(matches, n, td, result) ==
    IF ~result.ok THEN JsonLoop(matches, n + 1, td)
    ELSE LoopFields(matches, n, td, JsonGet(result.d, "title"),
                    JsonGet(result.d, "description"))

JsonLoop(matches, n, td) ==
    IF n > Len(matches) THEN [end |-> "next", td |-> td]
    ELSE LoopBody(matches, n, td, JsonLoads(matches[n]))

(***************************************************************************)
(* The response texts the model is run on: up to MaxSegments segments, in  *)
(* any order with repetition, and the long texts around PREVIEW_LENGTH.    *)
(***************************************************************************)
MaxSegments == 3
PREVIEW_LENGTH == 500

Segments == {
    "{\"title\": \"a\", ",
    "\"description\": \"b\"}",
    "{\"description\": \"b\", ",
    "\"title\": \"c\"}",
    "{\"title\": null, ",
    "\"description\": \"\"}",
    "\"title\": \"z\" ",
    "\"title\": \" \" ",
    "title: 'y ' ",
    "description: 'd'\n",
    "Title: e\n",
    "Description: f title\n",
    "A#!klama: \"g\",\n",
    "x {\n" }

RECURSIVE Concat(_, _)
Concat(segs, n) == IF n > Len(segs) THEN "" ELSE segs[n] \o Concat(segs, n + 1)

RECURSIVE Repeat(_, _)
Repeat(s, n) ==
    IF n = 0 THEN ""
    ELSE LET h == Repeat(s, n \div 2) IN IF n % 2 = 0 THEN h \o h ELSE h \o h \o s

LongTexts ==
    {head \o Repeat("x", n - Len(head)) :
        head \in {"", "Title: e\n", "{\"title\": \"a\", \"description\": \""},
        n \in {PREVIEW_LENGTH, PREVIEW_LENGTH + 1}}

Texts ==
    {Concat(segs, 1) : segs \in UNION {[1..n -> Segments] : n \in 0..MaxSegments}}
    \cup LongTexts

(***************************************************************************)
(* State                                                                   *)
(***************************************************************************)
VARIABLES
    pc,             \* where the handler stands
    response_text,  \* the text accumulated from the model stream
    title,          \* the local title of _parse_gemini_response
    description,    \* the local description of _parse_gemini_response
    outcome,        \* "" while running, then "returned", "aborted" (context.abort)
                    \* or "raised" (an exception leaves the function)
    details,        \* the details string given to context.abort
    debug_response, \* the local debug_response
    attempted,      \* history: the strategies that have run, in order
    code,           \* the status code given to context.abort, "" if none
    request,        \* the request of the SEO handler and what its checks meet
    fetched,        \* whether requests.get has been called for the request
    handler,        \* the SEO handler serving the request
    stream,         \* what generate_content_stream yields to the SEO handler
    consumed,       \* how many items of stream the handler's loop has taken
    processed_image_data,   \* ImageService.processed_image_data
    mime_type,      \* ImageService.mime_type
    message,        \* ImageService.message
    files,          \* the files written by save_binary_file, name -> data
    req,            \* per ProcessImage request: position, locals, history
    gen_pc,         \* where generate of multi_tool_agent/agent.py stands
    gen_stream,     \* what generate_content_stream yields to that generate
    gen_consumed,   \* how many items of gen_stream its loop has taken
    printed,        \* what it has printed, in order
    seo_agent,      \* SEOAgentServicer.seo_agent
    created,        \* how many times create_seo_agent has been called
    env_key,        \* the environment variable GOOGLE_API_KEY
    service,        \* how the analysis service answers the tool's RPC
    areq,           \* per request to SEOAgentServicer: position, locals, history
    flask_seo_agent,    \* the global seo_agent of server.py
    freq,           \* per request to the Flask server: position, locals, answer
    server_up,      \* whether the gRPC server at localhost:50071 is running
    connects,       \* how many connections to that server were attempted
    probe,          \* per run of health_check.py: position and result
    logger_handlers,    \* logging's registry: logger name -> its handlers
    logger_level,   \* logger name -> the level set on it, None if never set
    log_calls       \* history: the calls of setup_logger and get_logger made

parsevars == <<pc, response_text, title, description, outcome, details,
               debug_response, attempted, code>>

reqvars == <<request, fetched>>

streamvars == <<handler, stream, consumed>>

imagevars == <<processed_image_data, mime_type, message, files, req>>

genvars == <<gen_pc, gen_stream, gen_consumed, printed>>

svcvars == <<seo_agent, created, env_key, service, areq>>

agentvars == <<genvars, svcvars>>

flaskvars == <<flask_seo_agent, freq>>

\* the programs that stand beside the three gRPC services
probevars == <<server_up, connects, probe>>

logvars == <<logger_handlers, logger_level, log_calls>>

othervars == <<flaskvars, probevars, logvars>>

vars == <<parsevars, reqvars, streamvars, imagevars, agentvars, othervars>>

(***************************************************************************)
(* _parse_gemini_response, one action per strategy                         *)
(***************************************************************************)
\* lines 176-188: the JSON strategy.  Unbound locals are shown as "".
JsonStrategyEnds(r) ==
    /\ title' = r.td[1]
    /\ description' = r.td[2]
    /\ outcome' = CASE r.end = "ret" -> "returned"
                    [] r.end = "raise" -> "raised"
                    [] OTHER -> ""
    /\ pc' = IF r.end = "next" THEN "keypattern" ELSE "done"

JsonStrategy ==
    /\ pc = "json"
    /\ JsonStrategyEnds(JsonLoop(JsonFindAll(response_text, 1), 1, <<"", "">>))
    /\ attempted' = Append(attempted, "json")
    /\ UNCHANGED <<response_text, details, debug_response, streamvars,
                   imagevars, agentvars, reqvars, code, othervars>>

\* lines 190-218: title = ""; description = ""; then the two pattern loops
KeyPatterns(text) ==
    <<FirstPattern(text, title_patterns, 1), FirstPattern(text, description_patterns, 1)>>

KeyPatternStrategyEnds(td) ==
    /\ title' = td[1]
    /\ description' = td[2]
    /\ pc' = IF td[1] = "" \/ td[2] = "" THEN "lines" ELSE "final"

KeyPatternStrategy ==
    /\ pc = "keypattern"
    /\ KeyPatternStrategyEnds(KeyPatterns(response_text))
    /\ attempted' = Append(attempted, "keypattern")
    /\ UNCHANGED <<response_text, outcome, details, debug_response,
                   streamvars, imagevars, agentvars, reqvars, code,
                   othervars>>

\* lines 220-234: line-by-line parsing
LineHeuristic(text, td) == LineLoop(Split(text, 1), 1, td)

LineStrategyEnds(td) ==
    /\ title' = td[1]
    /\ description' = td[2]
    /\ pc' = "final"

LineStrategy ==
    /\ pc = "lines"
    /\ LineStrategyEnds(LineHeuristic(response_text, <<title, description>>))
    /\ attempted' = Append(attempted, "lines")
    /\ UNCHANGED <<response_text, outcome, details, debug_response,
                   streamvars, imagevars, agentvars, reqvars, code,
                   othervars>>

\* mutant of DebugResponse: the text is never truncated
DebugResponseWhole(text) == text

\* line 239
DebugResponse(text) ==
    IF Len(text) > PREVIEW_LENGTH THEN SubSeq(text, 1, PREVIEW_LENGTH) \o "..." ELSE text

YesNo(x) == IF x # "" THEN "Yes" ELSE "No"

\* lines 241-243
AbortDetails(t, d, preview) ==
    "Could not parse Gemini response. Found title: " \o YesNo(t)
    \o ", Found description: " \o YesNo(d) \o ". Response preview: " \o preview

\* mutant of Incomplete: "and" for "or"
IncompleteBoth(t, d) == t = "" /\ d = ""

\* line 237
Incomplete(t, d) == t = "" \/ d = ""

\* lines 236-245: the final fallback, or return title, description
FinalFallback ==
    /\ pc = "final"
    /\ IF Incomplete(title, description)
       THEN /\ debug_response' = DebugResponse(response_text)
            /\ details' = AbortDetails(title, description, DebugResponse(response_text))
            /\ code' = "INTERNAL"
            /\ outcome' = "aborted"
       ELSE /\ outcome' = "returned"
            /\ UNCHANGED <<details, debug_response, code>>
    /\ pc' = "done"
    /\ UNCHANGED <<response_text, title, description, attempted, streamvars,
                   imagevars, agentvars, reqvars, othervars>>

(***************************************************************************)
(* The model stream of the SEO handlers: GenerateFromImage (lines 83-94)   *)
(* and GenerateFromImageUrl (lines 156-168)                                *)
(***************************************************************************)
MaxChunks == 3

Handlers == {"GenerateFromImage", "GenerateFromImageUrl"}

\* the values of chunk.text: a fragment, or None for a chunk without text
Fragments ==
    {"Hel", "lo, ", "world", "{\"title\": \"a\", ", "\"description\": \"b\"}"}

TextChunk(t) == [kind |-> "chunk", text |-> Some(t)]

NoTextChunk == [kind |-> "chunk", text |-> None]

\* the iterator raises instead of yielding (transport failure)
StreamError == [kind |-> "raise", text |-> None]

StreamItems == {TextChunk(t) : t \in Fragments} \cup {NoTextChunk, StreamError}

\* finite streams; nothing follows a raise
Streams ==
    {s \in UNION {[1..n -> StreamItems] : n \in 0..MaxChunks} :
        \A i \in 1..Len(s) : s[i].kind = "raise" => i = Len(s)}

\* the f-string prefixes of lines 92 and 165 ("!" stands for the dotless i)
ApiErrorPrefix(h) ==
    IF h = "GenerateFromImage" THEN "Gemini API hatas!: " ELSE "Gemini API error: "

\* str(e) of the exception caught at lines 91 and 164
ErrorText(item) ==
    IF item.kind = "raise" THEN "stream failed"
    ELSE "can only concatenate str (not \"NoneType\") to str"

\* lines 90 and 163 raise: the iterator fails, or chunk.text is None
Raises(item) == item.kind = "raise" \/ item.text = None

\* lines 85-90, 158-163: response_text += chunk.text
ConsumeChunk ==
    /\ pc = "stream"
    /\ consumed < Len(stream)
    /\ ~Raises(stream[consumed + 1])
    /\ response_text' = response_text \o stream[consumed + 1].text[1]
    /\ consumed' = consumed + 1
    /\ UNCHANGED <<pc, title, description, outcome, details, debug_response,
                   attempted, handler, stream, imagevars, agentvars, reqvars,
                   code, othervars>>

\* lines 91-92, 164-165: except Exception -> context.abort(INTERNAL, ...)
StreamFails ==
    /\ pc = "stream"
    /\ consumed < Len(stream)
    /\ Raises(stream[consumed + 1])
    /\ outcome' = "aborted"
    /\ code' = "INTERNAL"
    /\ details' = ApiErrorPrefix(handler) \o ErrorText(stream[consumed + 1])
    /\ pc' = "done"
    /\ UNCHANGED <<response_text, title, description, debug_response,
                   attempted, streamvars, imagevars, agentvars, reqvars,
                   othervars>>

\* lines 94, 168: the loop is over, _parse_gemini_response is called
StreamEnds ==
    /\ pc = "stream"
    /\ consumed = Len(stream)
    /\ pc' = "json"
    /\ UNCHANGED <<response_text, title, description, outcome, details,
                   debug_response, attempted, streamvars, imagevars,
                   agentvars, reqvars, code, othervars>>

(***************************************************************************)
(* The image service: one ImageService shared by all ProcessImage calls    *)
(* (stox-image-service/grpc_server.py line 15, thread pool at line 87)     *)
(***************************************************************************)
NumRequests == 2
MaxImageChunks == 2

Requests == 1..NumRequests

Mimes == <<"image/png", "image/jpeg">>

\* the k-th image the model produces for request r
InlineData(r, k) == [data |-> <<r, k>>, mime_type |-> Mimes[k]]

ImagePart(r, k) == [inline_data |-> Some(InlineData(r, k)), text |-> None]

TextPart(t) == [inline_data |-> None, text |-> Some(t)]

EmptyPart == [inline_data |-> None, text |-> None]

\* the chunks the stream of request r may yield; parts = None stands for a
\* chunk whose candidates, content or parts is None
ImageChunks(r) ==
    {[parts |-> None]} \cup
    {[parts |-> Some(ps)] : ps \in
        { <<TextPart("Hel")>>, <<TextPart("lo ")>>, <<ImagePart(r, 1)>>,
          <<ImagePart(r, 2)>>, <<ImagePart(r, 1), TextPart("lo ")>>,
          <<EmptyPart>> }}

\* mimetypes.guess_extension
GuessExtension(m) ==
    CASE m = "image/png" -> ".png"
      [] m = "image/jpeg" -> ".jpg"
      [] OTHER -> "None"

Decimal(n) == SubSeq("0123456789", n + 1, n + 1)

\* procces_image.py lines 113, 118: f"image_{file_index}" and the extension
FileName(i, m) == "image_" \o Decimal(i) \o GuessExtension(m)

DefaultMessage == "Image processed successfully"

\* what ProcessImage answers when generate raised (grpc_server.py 73-78)
ErrorResponse(e) ==
    [processed_image_data |-> <<>>, mime_type |-> "", message |-> "Error: " \o e,
     code |-> "INTERNAL"]

\* grpc_server.py lines 47-51; a None mime_type leaves the field at ""
OkResponse(data, m, msg) ==
    [processed_image_data |-> data[1], mime_type |-> IF m = None THEN "" ELSE m[1],
     message |-> msg[1], code |-> "OK"]

\* seen and after are history: the chunks delivered so far, and the
\* requests that had been answered when this one was called
IdleRequest ==
    [pc |-> "idle", parts |-> <<>>, inline_data |-> None, response_text |-> "",
     file_index |-> 0, seen |-> <<>>, ret |-> <<>>, response |-> None,
     after |-> {}]

AfterPart(rest) == IF rest = <<>> THEN "next_chunk" ELSE "parts"

\* ProcessImage is called and enters generate (lines 64-97)
ProcessImage(r) ==
    /\ req[r].pc = "idle"
    /\ req' = [req EXCEPT ![r].pc = "next_chunk", ![r].response_text = "",
                          ![r].file_index = 0,
                          ![r].after = {q \in Requests : req[q].pc = "done"}]
    /\ UNCHANGED <<agentvars, parsevars, streamvars, processed_image_data,
                   mime_type, message, files, reqvars, othervars>>

\* lines 97-107: the stream yields a chunk; one without parts is skipped
TakeChunk(r, c) ==
    /\ req' = IF c.parts = None \/ c.parts = Some(<<>>)
              THEN [req EXCEPT ![r].seen = Append(@, c)]
              ELSE [req EXCEPT ![r].seen = Append(@, c), ![r].parts = c.parts[1],
                               ![r].pc = "parts"]

StreamYields(r) ==
    /\ req[r].pc = "next_chunk"
    /\ Len(req[r].seen) < MaxImageChunks
    /\ \E c \in ImageChunks(r) : TakeChunk(r, c)
    /\ UNCHANGED <<agentvars, parsevars, streamvars, processed_image_data,
                   mime_type, message, files, reqvars, othervars>>

\* lines 110-121 and 126-128: one part of the chunk; an image part is saved
\* to its file, a text part is appended to response_text
TakePart(r, p, rest) ==
    IF p.inline_data # None /\ p.inline_data[1].data # <<>>
    THEN /\ files' = (FileName(req[r].file_index, p.inline_data[1].mime_type)
                          :> p.inline_data[1].data) @@ files
         /\ req' = [req EXCEPT ![r].file_index = @ + 1,
                               ![r].inline_data = p.inline_data,
                               ![r].parts = rest, ![r].pc = "set_data"]
    ELSE /\ files' = files
         /\ req' = [req EXCEPT ![r].response_text =
                                   IF p.text # None THEN @ \o p.text[1] ELSE @,
                               ![r].parts = rest, ![r].pc = AfterPart(rest)]

ProcessPart(r) ==
    /\ req[r].pc = "parts"
    /\ TakePart(r, Head(req[r].parts), Tail(req[r].parts))
    /\ UNCHANGED <<agentvars, parsevars, streamvars, processed_image_data,
                   mime_type, message, reqvars, othervars>>

\* line 123: self.processed_image_data = data_buffer
SetProcessedImageData(r) ==
    /\ req[r].pc = "set_data"
    /\ processed_image_data' = Some(req[r].inline_data[1].data)
    /\ req' = [req EXCEPT ![r].pc = "set_mime"]
    /\ UNCHANGED <<agentvars, parsevars, streamvars, mime_type, message,
                   files, reqvars, othervars>>

\* line 124: self.mime_type = inline_data.mime_type
SetMimeType(r) ==
    /\ req[r].pc = "set_mime"
    /\ mime_type' = Some(req[r].inline_data[1].mime_type)
    /\ req' = [req EXCEPT ![r].pc = AfterPart(req[r].parts)]
    /\ UNCHANGED <<agentvars, parsevars, streamvars, processed_image_data,
                   message, files, reqvars, othervars>>

\* the stream is exhausted: the for loop of line 97 ends
ImageStreamEnds(r) ==
    /\ req[r].pc = "next_chunk"
    /\ req' = [req EXCEPT ![r].pc = "set_message"]
    /\ UNCHANGED <<agentvars, parsevars, streamvars, processed_image_data,
                   mime_type, message, files, reqvars, othervars>>

\* the stream raises: lines 162-177 log and re-raise, ProcessImage answers
\* with the error response (grpc_server.py 53-78)
ImageStreamRaises(r) ==
    /\ req[r].pc = "next_chunk"
    /\ req' = [req EXCEPT ![r].pc = "done",
                          ![r].response = Some(ErrorResponse("stream failed"))]
    /\ UNCHANGED <<agentvars, parsevars, streamvars, processed_image_data,
                   mime_type, message, files, reqvars, othervars>>

\* line 155
SetMessage(r) ==
    /\ req[r].pc = "set_message"
    /\ message' = Some(IF req[r].response_text # "" THEN Strip(req[r].response_text)
                       ELSE DefaultMessage)
    /\ req' = [req EXCEPT ![r].pc = "log_output"]
    /\ UNCHANGED <<agentvars, parsevars, streamvars, processed_image_data,
                   mime_type, files, reqvars, othervars>>

\* line 158: len(self.processed_image_data) raises TypeError on None
LogOutput(r) ==
    /\ req[r].pc = "log_output"
    /\ req' = IF processed_image_data = None
              THEN [req EXCEPT ![r].pc = "done",
                       ![r].response =
                           Some(ErrorResponse("object of type 'NoneType' has no len()"))]
              ELSE [req EXCEPT ![r].pc = "read_data"]
    /\ UNCHANGED <<agentvars, parsevars, streamvars, processed_image_data,
                   mime_type, message, files, reqvars, othervars>>

\* line 160, the three attribute reads of the return statement in turn
ReadProcessedImageData(r) ==
    /\ req[r].pc = "read_data"
    /\ req' = [req EXCEPT ![r].ret = <<processed_image_data>>, ![r].pc = "read_mime"]
    /\ UNCHANGED <<agentvars, parsevars, streamvars, processed_image_data,
                   mime_type, message, files, reqvars, othervars>>

ReadMimeType(r) ==
    /\ req[r].pc = "read_mime"
    /\ req' = [req EXCEPT ![r].ret = Append(@, mime_type), ![r].pc = "read_message"]
    /\ UNCHANGED <<agentvars, parsevars, streamvars, processed_image_data,
                   mime_type, message, files, reqvars, othervars>>

\* line 160 returns; grpc_server.py lines 27-51 build the response
ReturnResponse(r) ==
    /\ req[r].pc = "read_message"
    /\ req' = [req EXCEPT ![r].ret = Append(@, message), ![r].pc = "done",
                          ![r].response =
                              Some(OkResponse(req[r].ret[1], req[r].ret[2], message))]
    /\ UNCHANGED <<agentvars, parsevars, streamvars, processed_image_data,
                   mime_type, message, files, reqvars, othervars>>

(***************************************************************************)
(* generate of stox-agent/multi_tool_agent/agent.py (lines 35-80): the     *)
(* stream loop that prints each chunk's text or its first function call    *)
(***************************************************************************)
MaxGenChunks == 3

\* a chunk: its text (or None) and its function_calls (or None)
GenChunk(t, calls) == [kind |-> "chunk", text |-> t, function_calls |-> calls]

SeoCall == [name |-> "seo_analysis", url |-> "http://x/img.jpg"]

GenItems ==
    { GenChunk(Some("a"), None), GenChunk(Some("b"), None), GenChunk(None, None),
      GenChunk(None, Some(<<SeoCall>>)),
      [kind |-> "raise", text |-> None, function_calls |-> None] }

GenStreams ==
    {s \in UNION {[1..n -> GenItems] : n \in 0..MaxGenChunks} :
        \A i \in 1..Len(s) : s[i].kind = "raise" => i = Len(s)}

\* line 80: chunk.text if chunk.function_calls is None else
\* chunk.function_calls[0]
Printed(c) ==
    IF c.function_calls = None THEN [call |-> None, text |-> c.text]
    ELSE [call |-> Some(c.function_calls[1][1]), text |-> None]

\* lines 75-80: the next chunk is printed
PrintChunk ==
    /\ gen_pc = "stream"
    /\ gen_consumed < Len(gen_stream)
    /\ gen_stream[gen_consumed + 1].kind = "chunk"
    /\ printed' = Append(printed, Printed(gen_stream[gen_consumed + 1]))
    /\ gen_consumed' = gen_consumed + 1
    /\ UNCHANGED <<gen_pc, gen_stream, svcvars, parsevars, streamvars,
                   imagevars, reqvars, othervars>>

\* the iterator raises; generate has no handler
GenStreamRaises ==
    /\ gen_pc = "stream"
    /\ gen_consumed < Len(gen_stream)
    /\ gen_stream[gen_consumed + 1].kind = "raise"
    /\ gen_pc' = "raised"
    /\ UNCHANGED <<gen_stream, gen_consumed, printed, svcvars, parsevars,
                   streamvars, imagevars, reqvars, othervars>>

\* the stream is exhausted and generate returns
GenStreamEnds ==
    /\ gen_pc = "stream"
    /\ gen_consumed = Len(gen_stream)
    /\ gen_pc' = "done"
    /\ UNCHANGED <<gen_stream, gen_consumed, printed, svcvars, parsevars,
                   streamvars, imagevars, reqvars, othervars>>

(***************************************************************************)
(* The agent service: SEOAgentServicer (stox-agent/grpc_server.py), the    *)
(* SEOLangChainAgent and its tool (multi_tool_agent/langchain_agent.py,    *)
(* agent.py).  The executor loop is that of AgentExecutor as constructed   *)
(* at langchain_agent.py lines 79-84: no max_iterations is given, so it    *)
(* stops after MAX_ITERATIONS steps with the fixed StoppedOutput.          *)
(***************************************************************************)
NumAgentRequests == 2
MAX_ITERATIONS == 15

AgentRequests == 1..NumAgentRequests

Rpcs == {"Chat", "AnalyzeSEO", "HealthCheck"}

ImageUrl == "http://x/img.jpg"

\* request.message, request.image_url
Arguments == {"", ImageUrl}

\* how the analysis service at localhost:50071 answers the tool
Services == {"up", "unreachable", "rejects"}

StoppedOutput == "Agent stopped due to iteration limit or time limit."

\* str(response) of the ImageResponse the analysis service returns
ResponseText == "title: \"T\"\ndescription: \"D\"\n"

\* str(e) of the grpc.RpcError raised by stub.GenerateFromImageUrl
RpcErrorText(svc) ==
    IF svc = "unreachable" THEN "StatusCode.UNAVAILABLE"
    ELSE "StatusCode.INVALID_ARGUMENT"

Returned(x) == [raised |-> FALSE, value |-> x]

Raised(e) == [raised |-> TRUE, value |-> e]

\* mutant of seo_analysis: no try/except around the RPC
SeoAnalysisUnguarded(url, svc) ==
    IF svc = "up" THEN Returned(ResponseText) ELSE Raised(RpcErrorText(svc))

\* agent.py lines 11-33
seo_analysis(url, svc) ==
    IF svc = "up" THEN Returned(ResponseText)
    ELSE Returned("Error analyzing image URL: " \o RpcErrorText(svc))

\* langchain_agent.py lines 19-23, result being seo_analysis(url)
RunResult(result) ==
    IF result.raised THEN Returned("Error during SEO analysis: " \o result.value)
    ELSE Returned(result.value)

\* SEOAnalysisTool._run, langchain_agent.py lines 17-23
ToolRun(url, svc) == RunResult(seo_analysis(url, svc))

\* str(step) of an intermediate step (tool call, observation)
StepStr(step) ==
    "(" \o step.tool \o "(" \o step.url \o "), " \o step.observation \o ")"

RECURSIVE StepStrs(_, _)
\* langchain_agent.py line 123: [str(step) for step in ...]
StepStrs(steps, n) ==
    IF n > Len(steps) THEN <<>> ELSE <<StepStr(steps[n])>> \o StepStrs(steps, n + 1)

\* the responses of the servicer; Chat puts the output in text, AnalyzeSEO
\* in text with image_url
Response(rpc, success, text, error, steps, url) ==
    [rpc |-> rpc, success |-> success, text |-> text, error |-> error,
     intermediate_steps |-> steps, image_url |-> url]

IdleAgentRequest ==
    [pc |-> "idle", rpc |-> "", arg |-> "", agent |-> None,
     iterations |-> 0, turns |-> 0, steps |-> <<>>, failed |-> FALSE,
     result |-> None, response |-> None]

\* mutant of HealthCheck: the health check obtains the agent first
HealthCheckWithAgent(t) ==
    /\ areq[t].pc = "idle"
    /\ seo_agent' = IF seo_agent = None THEN Some(created + 1) ELSE seo_agent
    /\ created' = IF seo_agent = None THEN created + 1 ELSE created
    /\ areq' = [areq EXCEPT ![t].pc = "done", ![t].rpc = "HealthCheck",
                   ![t].response = Some(Response("HealthCheck", TRUE, "healthy", "",
                                                 <<>>, ""))]
    /\ UNCHANGED <<env_key, service, genvars, parsevars, streamvars,
                   imagevars, reqvars, othervars>>

\* grpc_server.py lines 34-39
HealthCheck(t) ==
    /\ areq[t].pc = "idle"
    /\ areq' = [areq EXCEPT ![t].pc = "done", ![t].rpc = "HealthCheck",
                   ![t].response = Some(Response("HealthCheck", TRUE, "healthy", "",
                                                 <<>>, ""))]
    /\ UNCHANGED <<seo_agent, created, env_key, service, genvars, parsevars,
                   streamvars, imagevars, reqvars, othervars>>

\* Accept without the argument check
AcceptUnchecked(t, rpc, arg) ==
    [areq EXCEPT ![t].pc = "get_agent", ![t].rpc = rpc, ![t].arg = arg]

\* lines 45-51 and 73-79: the argument check of Chat and AnalyzeSEO
Accept(t, rpc, arg) ==
    IF arg = ""
    THEN [areq EXCEPT ![t].pc = "done", ![t].rpc = rpc, ![t].arg = arg,
              ![t].response =
                  Some(Response(rpc, FALSE, "",
                                IF rpc = "Chat" THEN "Missing message in request"
                                ELSE "Missing image_url in request", <<>>, ""))]
    ELSE [areq EXCEPT ![t].pc = "get_agent", ![t].rpc = rpc, ![t].arg = arg]

\* lines 41-51
Chat(t) ==
    /\ areq[t].pc = "idle"
    /\ \E arg \in Arguments : areq' = Accept(t, "Chat", arg)
    /\ UNCHANGED <<seo_agent, created, env_key, service, genvars, parsevars,
                   streamvars, imagevars, reqvars, othervars>>

\* lines 69-79
AnalyzeSEO(t) ==
    /\ areq[t].pc = "idle"
    /\ \E arg \in Arguments : areq' = Accept(t, "AnalyzeSEO", arg)
    /\ UNCHANGED <<seo_agent, created, env_key, service, genvars, parsevars,
                   streamvars, imagevars, reqvars, othervars>>

\* what the handlers answer in their except clause, lines 63-67 and 92-97
Failure(t, e) ==
    Some(Response(areq[t].rpc, FALSE, "", e, <<>>,
                  IF areq[t].rpc = "AnalyzeSEO" THEN areq[t].arg ELSE ""))

\* line 27: if self.seo_agent is None
GetAgent(t) ==
    /\ areq[t].pc = "get_agent"
    /\ areq' = [areq EXCEPT ![t].pc = IF seo_agent = None THEN "create"
                                       ELSE "return_agent"]
    /\ UNCHANGED <<seo_agent, created, env_key, service, genvars, parsevars,
                   streamvars, imagevars, reqvars, othervars>>

\* line 28: os.getenv("GOOGLE_API_KEY", " ")
GoogleKey == IF env_key = None THEN " " ELSE env_key[1]

\* lines 28-31 up to the call of create_seo_agent, which constructs a new
\* SEOLangChainAgent (langchain_agent.py lines 41-42 set the environment)
CreateSeoAgent(t) ==
    /\ areq[t].pc = "create"
    /\ IF GoogleKey = ""
       THEN /\ areq' = [areq EXCEPT ![t].pc = "done",
                           ![t].response =
                               Failure(t, "GOOGLE_API_KEY environment variable is required")]
            /\ UNCHANGED <<created, env_key>>
       ELSE /\ created' = created + 1
            /\ env_key' = Some(GoogleKey)
            /\ areq' = [areq EXCEPT ![t].pc = "store", ![t].agent = Some(created + 1)]
    /\ UNCHANGED <<seo_agent, service, genvars, parsevars, streamvars,
                   imagevars, reqvars, othervars>>

\* line 31: self.seo_agent = ...
StoreAgent(t) ==
    /\ areq[t].pc = "store"
    /\ seo_agent' = areq[t].agent
    /\ areq' = [areq EXCEPT ![t].pc = "return_agent"]
    /\ UNCHANGED <<created, env_key, service, genvars, parsevars, streamvars,
                   imagevars, reqvars, othervars>>

\* line 32: return self.seo_agent
ReturnAgent(t) ==
    /\ areq[t].pc = "return_agent"
    /\ areq' = [areq EXCEPT ![t].pc = "invoke", ![t].agent = seo_agent]
    /\ UNCHANGED <<seo_agent, created, env_key, service, genvars, parsevars,
                   streamvars, imagevars, reqvars, othervars>>

\* line 55: agent.chat(message) enters the executor; line 83:
\* agent.analyze_seo is not a method of SEOLangChainAgent
InvokeAgent(t) ==
    /\ areq[t].pc = "invoke"
    /\ areq' = IF areq[t].rpc = "Chat" THEN [areq EXCEPT ![t].pc = "model"]
               ELSE [areq EXCEPT ![t].pc = "done",
                        ![t].response =
                            Failure(t, "'SEOLangChainAgent' object has no attribute 'analyze_seo'")]
    /\ UNCHANGED <<seo_agent, created, env_key, service, genvars, parsevars,
                   streamvars, imagevars, reqvars, othervars>>

\* mutant of ShouldContinue: one iteration more
ShouldContinueOneMore(iterations) == iterations <= MAX_ITERATIONS

\* the executor's loop condition
ShouldContinue(iterations) == iterations < MAX_ITERATIONS

\* langchain_agent.py lines 121-124: the result of a run that ended normally
RunResultOf(output, steps) ==
    Some([output |-> output, intermediate_steps |-> StepStrs(steps, 1)])

\* mutant of ErrorResult: the steps taken so far are kept
ErrorResultWithSteps(e, steps) ==
    Some([output |-> "Error: " \o e, intermediate_steps |-> StepStrs(steps, 1)])

\* langchain_agent.py lines 125-129: the except clause of chat
ErrorResult(e, steps) == Some([output |-> "Error: " \o e, intermediate_steps |-> <<>>])

\* the model's answer to a turn: final text, a tool request, or a failure
TurnOutcome(t, out) ==
    CASE out = "finish" ->
           [areq EXCEPT ![t].turns = @ + 1, ![t].pc = "respond",
                        ![t].result = RunResultOf("final answer", areq[t].steps)]
      [] out = "tool" -> [areq EXCEPT ![t].turns = @ + 1, ![t].pc = "tool"]
      [] OTHER ->
           [areq EXCEPT ![t].turns = @ + 1, ![t].pc = "respond", ![t].failed = TRUE,
                        ![t].result = ErrorResult("model unavailable", areq[t].steps)]

\* one invocation of the model by the executor (lines 121, 97)
ModelTurn(t) ==
    /\ areq[t].pc = "model"
    /\ ShouldContinue(areq[t].iterations)
    /\ \E out \in {"finish", "tool", "fail"} : areq' = TurnOutcome(t, out)
    /\ UNCHANGED <<seo_agent, created, env_key, service, genvars, parsevars,
                   streamvars, imagevars, reqvars, othervars>>

\* the iteration limit is reached: the run ends with StoppedOutput
StopAtLimit(t) ==
    /\ areq[t].pc = "model"
    /\ ~ShouldContinue(areq[t].iterations)
    /\ areq' = [areq EXCEPT ![t].pc = "respond",
                   ![t].result = RunResultOf(StoppedOutput, areq[t].steps)]
    /\ UNCHANGED <<seo_agent, created, env_key, service, genvars, parsevars,
                   streamvars, imagevars, reqvars, othervars>>

\* the executor takes the tool's answer r as the observation of the step; an
\* exception leaving the tool ends the run in the except clause of chat
Observe(t, r) ==
    IF r.raised
    THEN [areq EXCEPT ![t].pc = "respond", ![t].failed = TRUE,
              ![t].result = ErrorResult(r.value, areq[t].steps)]
    ELSE [areq EXCEPT ![t].pc = "model", ![t].iterations = @ + 1,
              ![t].steps = Append(@, [tool |-> "seo_analysis", url |-> ImageUrl,
                                      observation |-> r.value])]

\* the executor runs the requested tool: SEOAnalysisTool._run
CallTool(t) ==
    /\ areq[t].pc = "tool"
    /\ areq' = Observe(t, ToolRun(ImageUrl, service))
    /\ UNCHANGED <<seo_agent, created, env_key, service, genvars, parsevars,
                   streamvars, imagevars, reqvars, othervars>>

\* what the RPC of seo_analysis meets when the analysis service answers it
\* with the given outcome: a response, or an RpcError for an aborted call
ServiceOf(oc) == IF oc = "returned" THEN "up" ELSE "rejects"

\* the request is the one the tool sends (agent.py lines 24-29):
\* GenerateFromImageUrl with the URL the tool was given
FromTool == handler = "GenerateFromImageUrl" /\ request.image_url = ImageUrl

\* the executor runs the requested tool, the RPC of seo_analysis being
\* answered by the handler, whose run depends on the request and the model
\* stream only: the same URL gets the same answer on every call
CallSeoService(t) ==
    /\ areq[t].pc = "tool"
    /\ FromTool
    /\ pc = "done"
    /\ areq' = Observe(t, ToolRun(request.image_url, ServiceOf(outcome)))
    /\ UNCHANGED <<seo_agent, created, env_key, service, genvars, parsevars,
                   streamvars, imagevars, reqvars, othervars>>

\* grpc_server.py lines 57-61
ChatReturns(t) ==
    /\ areq[t].pc = "respond"
    /\ areq' = [areq EXCEPT ![t].pc = "done",
                   ![t].response =
                       Some(Response("Chat", TRUE, areq[t].result[1].output, "",
                                     areq[t].result[1].intermediate_steps, ""))]
    /\ UNCHANGED <<seo_agent, created, env_key, service, genvars, parsevars,
                   streamvars, imagevars, reqvars, othervars>>

(***************************************************************************)
(* The input checks of the SEO handlers: GenerateFromImage (lines 52-62)   *)
(* and GenerateFromImageUrl (lines 99-131).  context.abort sets the status *)
(* and raises; inside the try of lines 104-131 that exception is caught at *)
(* line 130, which aborts again with INTERNAL.                             *)
(***************************************************************************)
MAX_IMAGE_BYTES == 10 * 1024 * 1024

SUPPORTED_FORMATS == {"jpeg", "jpg", "png", "gif", "bmp", "webp"}

RECURSIVE Lower(_)
\* str.lower
Lower(s) == IF s = "" THEN "" ELSE LowerCh(Ch(s, 1)) \o Lower(SubSeq(s, 2, Len(s)))

\* filename.lower().split(".")[-1]
Extension(filename) ==
    LET dots == {i \in 1..Len(filename) : Ch(filename, i) = "."}
        last == IF dots = {} THEN 0 ELSE CHOOSE i \in dots : \A j \in dots : j <= i
    IN  Lower(SubSeq(filename, last + 1, Len(filename)))

\* lines 19-25
validate_image(filename, content_type) ==
    IF content_type = "" \/ ~StartsAt(content_type, "image/", 1) THEN FALSE
    ELSE IF filename # "" THEN Extension(filename) \in SUPPORTED_FORMATS
    ELSE FALSE

\* the requests: for GenerateFromImage filename, content_type and the image
\* (its size, whether PIL can open it); for GenerateFromImageUrl image_url
\* and what the download brings (whether it succeeds, its content-type
\* header, its size, whether PIL can open it)
SeoRequests(h) ==
    IF h = "GenerateFromImageUrl"
    THEN [image_url : {"", ImageUrl}, filename : {""},
          content_type : {"image/png", "text/html"}, download : {"ok", "fails"},
          size : {MAX_IMAGE_BYTES, MAX_IMAGE_BYTES + 1}, decodable : BOOLEAN]
    ELSE [image_url : {""}, filename : {"a.PNG", "a.txt", ""},
          content_type : {"image/png", ""}, download : {"ok"},
          size : {MAX_IMAGE_BYTES, MAX_IMAGE_BYTES + 1}, decodable : BOOLEAN]

\* where the handler starts
EntryPoint(h) == IF h = "GenerateFromImageUrl" THEN "check_url" ELSE "content_type"

\* context.abort(c, d) outside a try block: the handler ends there
Abort(c, d) ==
    /\ outcome' = "aborted"
    /\ code' = c
    /\ details' = d
    /\ pc' = "done"

\* context.abort(c, d) under the try of GenerateFromImageUrl: line 130
\* catches the exception it raises and line 131 aborts again, str(e) = ""
AbortInTry(c, d) == Abort("INTERNAL", "Unexpected error: ")

Proceed(next) ==
    /\ pc' = next
    /\ UNCHANGED <<outcome, code, details>>

\* lines 99-102
CheckUrl ==
    /\ pc = "check_url"
    /\ IF request.image_url = "" THEN Abort("INVALID_ARGUMENT", "Image URL is required")
       ELSE Proceed("download")
    /\ UNCHANGED <<response_text, title, description, debug_response,
                   attempted, reqvars, streamvars, imagevars, agentvars,
                   othervars>>

\* lines 106-107 and 128-129: requests.get and raise_for_status
Download ==
    /\ pc = "download"
    /\ fetched' = TRUE
    /\ IF request.download = "fails"
       THEN Abort("INVALID_ARGUMENT",
                  "Error downloading image from URL: connection failed")
       ELSE Proceed("content_type")
    /\ UNCHANGED <<response_text, title, description, debug_response,
                   attempted, request, streamvars, imagevars, agentvars,
                   othervars>>

\* lines 52-53 (validate_image) and 110-112
CheckContentType ==
    /\ pc = "content_type"
    /\ IF handler = "GenerateFromImage"
       THEN IF ~validate_image(request.filename, request.content_type)
            THEN Abort("INVALID_ARGUMENT", "Ge#ersiz resim format!.")
            ELSE Proceed("size")
       ELSE IF ~StartsAt(request.content_type, "image/", 1)
            THEN AbortInTry("INVALID_ARGUMENT",
                            "URL does not point to an image. Content-Type: "
                                \o request.content_type)
            ELSE Proceed("size")
    /\ UNCHANGED <<response_text, title, description, debug_response,
                   attempted, reqvars, streamvars, imagevars, agentvars,
                   othervars>>

\* mutant of TooLarge: a payload of exactly the limit is rejected too
TooLargeAtLimit(size) == size >= MAX_IMAGE_BYTES

\* lines 55 and 117: len(image_bytes) > 10 * 1024 * 1024
TooLarge(size) == size > MAX_IMAGE_BYTES

\* mutant of CheckSize: the size is not checked
SkipSizeCheck ==
    /\ pc = "size"
    /\ Proceed("decode")
    /\ UNCHANGED <<response_text, title, description, debug_response,
                   attempted, reqvars, streamvars, imagevars, agentvars,
                   othervars>>

\* lines 54-56 and 114-118
CheckSize ==
    /\ pc = "size"
    /\ IF TooLarge(request.size)
       THEN IF handler = "GenerateFromImage"
            THEN Abort("INVALID_ARGUMENT",
                       "Resim dosyas! #ok b%y%k. Maksimum 10MB desteklenir.")
            ELSE AbortInTry("INVALID_ARGUMENT",
                            "Image file is too large. Maximum 10MB supported.")
       ELSE Proceed("decode")
    /\ UNCHANGED <<response_text, title, description, debug_response,
                   attempted, reqvars, streamvars, imagevars, agentvars,
                   othervars>>

\* lines 57-62 and 121-126: Image.open
DecodeImage ==
    /\ pc = "decode"
    /\ IF ~request.decodable
       THEN IF handler = "GenerateFromImage"
            THEN Abort("INVALID_ARGUMENT",
                       "Resim dosyas! i$lenirken hata: cannot identify image file")
            ELSE AbortInTry("INVALID_ARGUMENT",
                            "Error processing image: cannot identify image file")
       ELSE Proceed("stream")
    /\ UNCHANGED <<response_text, title, description, debug_response,
                   attempted, reqvars, streamvars, imagevars, agentvars,
                   othervars>>

(***************************************************************************)
(* The Flask server of the agent, server.py.  A JSON body is the record of *)
(* its keys, None for a key the body does not have.                        *)
(***************************************************************************)
NumFlaskRequests == 2

FlaskRequests == 1..NumFlaskRequests

Bodies ==
    [message : {None, Some(""), Some("hi")}, image_url : {None, Some(ImageUrl)}]

\* "not data": no key at all
EmptyBody(data) == data.message = None /\ data.image_url = None

\* the key a route requires
RequiredKey(route) == IF route = "/chat" THEN "message" ELSE "image_url"

\* "message" in data, "image_url" in data
HasKey(data, key) == data[key] # None

\* jsonify(...), status: the answers of the routes
HttpResponse(status, success, error, output) ==
    [status |-> status, success |-> success, error |-> error, output |-> output]

IdleFlaskRequest ==
    [pc |-> "idle", route |-> "", data |-> [message |-> None, image_url |-> None],
     response |-> None]

\* line 17
FLASK_GOOGLE_KEY == ""

\* lines 23-26
health(f) ==
    /\ freq[f].pc = "idle"
    /\ freq' = [freq EXCEPT ![f].pc = "done", ![f].route = "/health",
                   ![f].response = Some(HttpResponse(200, None, "", "healthy"))]
    /\ UNCHANGED <<flask_seo_agent, parsevars, reqvars, streamvars, imagevars,
                   agentvars, probevars, logvars>>

\* lines 39-46 and 76-83: the body check of the two POST routes
RouteAccepts(f, route, data) ==
    IF EmptyBody(data) \/ ~HasKey(data, RequiredKey(route))
    THEN [freq EXCEPT ![f].pc = "done", ![f].route = route, ![f].data = data,
              ![f].response =
                  Some(HttpResponse(400, None,
                                    "Missing '" \o RequiredKey(route)
                                        \o "' in request body", ""))]
    ELSE [freq EXCEPT ![f].pc = "get_agent", ![f].route = route, ![f].data = data]

\* lines 28-46
analyze_seo(f) ==
    /\ freq[f].pc = "idle"
    /\ \E data \in Bodies : freq' = RouteAccepts(f, "/analyze-seo", data)
    /\ UNCHANGED <<flask_seo_agent, parsevars, reqvars, streamvars, imagevars,
                   agentvars, probevars, logvars>>

\* lines 65-83
chat(f) ==
    /\ freq[f].pc = "idle"
    /\ \E data \in Bodies : freq' = RouteAccepts(f, "/chat", data)
    /\ UNCHANGED <<flask_seo_agent, parsevars, reqvars, streamvars, imagevars,
                   agentvars, probevars, logvars>>

\* lines 14-21 with the except clause of the route (59-63, 95-99): the key
\* of line 17 is the empty string, so line 19 raises whenever the agent does
\* not exist yet, and nothing else assigns seo_agent
get_agent(f) ==
    /\ freq[f].pc = "get_agent"
    /\ freq' = IF flask_seo_agent = None /\ FLASK_GOOGLE_KEY = ""
               THEN [freq EXCEPT ![f].pc = "done",
                        ![f].response =
                            Some(HttpResponse(500, Some(FALSE),
                                 "GOOGLE_API_KEY environment variable is required", ""))]
               ELSE [freq EXCEPT ![f].pc = "invoke"]
    /\ UNCHANGED <<flask_seo_agent, parsevars, reqvars, streamvars, imagevars,
                   agentvars, probevars, logvars>>

FlaskIdle ==
    /\ flask_seo_agent = None
    /\ freq = [f \in FlaskRequests |-> IdleFlaskRequest]

(***************************************************************************)
(* health_check.py of the SEO service.  grpc.insecure_channel builds a     *)
(* channel object without connecting: a channel connects when the first    *)
(* RPC is made on it, and check_health makes none.                         *)
(***************************************************************************)
NumProbes == 3

Probes == 1..NumProbes

IdleProbe == [pc |-> "idle", result |-> None]

\* line 12: grpc.insecure_channel('localhost:50071')
CreateChannel(p) ==
    /\ probe[p].pc = "idle"
    /\ probe' = [probe EXCEPT ![p].pc = "stub"]
    /\ UNCHANGED <<server_up, connects, flaskvars, logvars, parsevars, reqvars,
                   streamvars, imagevars, agentvars>>

\* line 13: ProductImageAnalyzerStub(channel)
CreateStub(p) ==
    /\ probe[p].pc = "stub"
    /\ probe' = [probe EXCEPT ![p].pc = "close"]
    /\ UNCHANGED <<server_up, connects, flaskvars, logvars, parsevars, reqvars,
                   streamvars, imagevars, agentvars>>

\* line 16: channel.close()
CloseChannel(p) ==
    /\ probe[p].pc = "close"
    /\ probe' = [probe EXCEPT ![p].pc = "return"]
    /\ UNCHANGED <<server_up, connects, flaskvars, logvars, parsevars, reqvars,
                   streamvars, imagevars, agentvars>>

\* line 17: return True
check_health(p) ==
    /\ probe[p].pc = "return"
    /\ probe' = [probe EXCEPT ![p].pc = "done", ![p].result = Some(TRUE)]
    /\ UNCHANGED <<server_up, connects, flaskvars, logvars, parsevars, reqvars,
                   streamvars, imagevars, agentvars>>

ProbeIdle ==
    /\ server_up = TRUE
    /\ connects = 0
    /\ probe = [p \in Probes |-> IdleProbe]

(***************************************************************************)
(* logger_config.py of the image service: setup_logger and get_logger on   *)
(* the registry of the logging module, one call after the other; up to     *)
(* MaxLogCalls calls follow the one the import of the module makes.        *)
(***************************************************************************)
MaxLogCalls == 3

DefaultLogger == "stox_image_service"

\* the names given to the calls; "" is logging's root logger for
\* setup_logger and, like None, no name for get_logger
LoggerNames == {"", DefaultLogger, "grpc_server"}

\* log_level arguments; logging has no attribute VERBOSE
LogLevels == {"INFO", "debug", "verbose"}

\* the handlers of lines 76-120, in the order they are added
FourHandlers == <<"console", "file", "error", "performance">>

LogCall(fn, name, returned) == [fn |-> fn, name |-> name, returned |-> returned]

\* line 54: getattr(logging, log_level.upper()) raises for an unknown level
KnownLevel(log_level) == log_level \in {"INFO", "debug"}

\* mutant of AddHandlers: the four handlers are added to whatever is there
AddHandlersAlways(hs) == hs \o FourHandlers

\* lines 56-120: no handler is added to a logger that has any
AddHandlers(hs) == IF hs # <<>> THEN hs ELSE FourHandlers

\* the registry after setup_logger(name, log_level), lines 53-122
SetupHandlers(name) ==
    [logger_handlers EXCEPT ![name] = AddHandlers(logger_handlers[name])]

\* lines 36-122
setup_logger ==
    /\ Len(log_calls) <= MaxLogCalls
    /\ \E name \in LoggerNames, log_level \in LogLevels :
          IF KnownLevel(log_level)
          THEN /\ logger_level' = [logger_level EXCEPT ![name] = Some(log_level)]
               /\ logger_handlers' = SetupHandlers(name)
               /\ log_calls' = Append(log_calls, LogCall("setup_logger", Some(name),
                                                         Some(name)))
          ELSE /\ log_calls' = Append(log_calls, LogCall("setup_logger", Some(name),
                                                         None))
               /\ UNCHANGED <<logger_handlers, logger_level>>
    /\ UNCHANGED <<flaskvars, probevars, parsevars, reqvars, streamvars, imagevars,
                   agentvars>>

\* lines 124-141; setup_logger(name) sets the level INFO
get_logger ==
    /\ Len(log_calls) <= MaxLogCalls
    /\ \E name \in {None} \cup {Some(n) : n \in LoggerNames} :
          IF name # None /\ name[1] # ""
          THEN IF logger_handlers[name[1]] = <<>>
               THEN /\ logger_level' = [logger_level EXCEPT ![name[1]] = Some("INFO")]
                    /\ logger_handlers' = SetupHandlers(name[1])
                    /\ log_calls' = Append(log_calls, LogCall("get_logger", name, name))
               ELSE /\ log_calls' = Append(log_calls, LogCall("get_logger", name, name))
                    /\ UNCHANGED <<logger_handlers, logger_level>>
          ELSE /\ log_calls' = Append(log_calls, LogCall("get_logger", name,
                                                         Some(DefaultLogger)))
               /\ UNCHANGED <<logger_handlers, logger_level>>
    /\ UNCHANGED <<flaskvars, probevars, parsevars, reqvars, streamvars, imagevars,
                   agentvars>>

\* line 181: importing the module runs default_logger = setup_logger()
LogIdle ==
    /\ logger_handlers =
           [n \in LoggerNames |-> IF n = DefaultLogger THEN FourHandlers ELSE <<>>]
    /\ logger_level =
           [n \in LoggerNames |-> IF n = DefaultLogger THEN Some("INFO") ELSE None]
    /\ log_calls = <<LogCall("setup_logger", Some(DefaultLogger), Some(DefaultLogger))>>

\* what stands beside the three gRPC services, untouched
OtherIdle == FlaskIdle /\ ProbeIdle /\ LogIdle

(***************************************************************************)
(* Specifications                                                          *)
(***************************************************************************)
ParseIdle ==
    /\ title = ""
    /\ description = ""
    /\ outcome = ""
    /\ details = ""
    /\ debug_response = ""
    /\ attempted = <<>>
    /\ code = ""

\* a request that passes every check of GenerateFromImageUrl
PlainRequest ==
    [image_url |-> ImageUrl, filename |-> "", content_type |-> "image/png",
     download |-> "ok", size |-> MAX_IMAGE_BYTES, decodable |-> TRUE]

RequestIdle ==
    /\ request = PlainRequest
    /\ fetched = FALSE

StreamIdle ==
    /\ handler = "GenerateFromImageUrl"
    /\ stream = <<>>
    /\ consumed = 0

\* ImageService.__init__, lines 48-50, and no request yet
ImageIdle ==
    /\ processed_image_data = None
    /\ mime_type = None
    /\ message = None
    /\ files = <<>>
    /\ req = [r \in Requests |-> IdleRequest]

GenIdle ==
    /\ gen_pc = "idle"
    /\ gen_stream = <<>>
    /\ gen_consumed = 0
    /\ printed = <<>>

\* SEOAgentServicer.__init__, grpc_server.py lines 21-23, and no request yet
ServicerIdle ==
    /\ seo_agent = None
    /\ created = 0
    /\ env_key = None
    /\ service = "up"
    /\ areq = [t \in AgentRequests |-> IdleAgentRequest]

AgentIdle == GenIdle /\ ServicerIdle

\* _parse_gemini_response on a given response text
ParseInit ==
    /\ pc = "json"
    /\ response_text \in Texts
    /\ OtherIdle /\ ParseIdle /\ RequestIdle /\ StreamIdle /\ ImageIdle /\ AgentIdle

ParseNext == JsonStrategy \/ KeyPatternStrategy \/ LineStrategy \/ FinalFallback

ParseSpec == ParseInit /\ [][ParseNext]_vars

\* an SEO handler serving one request
SeoInit ==
    /\ handler \in Handlers
    /\ pc = EntryPoint(handler)
    /\ request \in SeoRequests(handler)
    /\ fetched = FALSE
    /\ response_text = ""
    /\ stream \in Streams
    /\ consumed = 0
    /\ OtherIdle /\ ParseIdle /\ ImageIdle /\ AgentIdle

SeoNext ==
    \/ CheckUrl \/ Download \/ CheckContentType \/ CheckSize \/ DecodeImage
    \/ ConsumeChunk \/ StreamFails \/ StreamEnds
    \/ JsonStrategy \/ KeyPatternStrategy \/ LineStrategy \/ FinalFallback

SeoSpec == SeoInit /\ [][SeoNext]_vars

\* the image service serving NumRequests ProcessImage calls
ImageInit ==
    /\ pc = "idle"
    /\ response_text = ""
    /\ OtherIdle /\ ParseIdle /\ RequestIdle /\ StreamIdle /\ ImageIdle /\ AgentIdle

ImageNext ==
    \E r \in Requests :
        \/ ProcessImage(r) \/ StreamYields(r) \/ ProcessPart(r)
        \/ SetProcessedImageData(r) \/ SetMimeType(r)
        \/ ImageStreamEnds(r) \/ ImageStreamRaises(r)
        \/ SetMessage(r) \/ LogOutput(r)
        \/ ReadProcessedImageData(r) \/ ReadMimeType(r) \/ ReturnResponse(r)

ImageSpec == ImageInit /\ [][ImageNext]_vars

\* generate of agent.py on a given stream
GenerateInit ==
    /\ gen_pc = "stream"
    /\ gen_stream \in GenStreams
    /\ gen_consumed = 0
    /\ printed = <<>>
    /\ pc = "idle"
    /\ response_text = ""
    /\ OtherIdle /\ ParseIdle /\ RequestIdle /\ StreamIdle /\ ImageIdle /\ ServicerIdle

GenerateNext == PrintChunk \/ GenStreamRaises \/ GenStreamEnds

GenerateSpec == GenerateInit /\ [][GenerateNext]_vars

\* the agent service serving NumAgentRequests requests
AgentInit ==
    /\ seo_agent = None
    /\ created = 0
    /\ env_key \in {None, Some(""), Some("k")}
    /\ service \in Services
    /\ areq = [t \in AgentRequests |-> IdleAgentRequest]
    /\ pc = "idle"
    /\ response_text = ""
    /\ OtherIdle /\ ParseIdle /\ RequestIdle /\ StreamIdle /\ ImageIdle /\ GenIdle

AgentNext ==
    \E t \in AgentRequests :
        \/ HealthCheck(t) \/ Chat(t) \/ AnalyzeSEO(t)
        \/ GetAgent(t) \/ CreateSeoAgent(t) \/ StoreAgent(t) \/ ReturnAgent(t)
        \/ InvokeAgent(t) \/ ModelTurn(t) \/ StopAtLimit(t) \/ CallTool(t)
        \/ ChatReturns(t)

AgentSpec == AgentInit /\ [][AgentNext]_vars

\* a served HealthCheck request
ServedHealthCheck ==
    [IdleAgentRequest EXCEPT !.pc = "done", !.rpc = "HealthCheck",
         !.response = Some(Response("HealthCheck", TRUE, "healthy", "", <<>>, ""))]

\* the streams of at most one item
ShortStreams == {s \in Streams : Len(s) <= 1}

\* both services, each serving one request: the agent service (its other
\* request was a health check, served before) and an SEO handler
ArgInit ==
    /\ seo_agent = None
    /\ created = 0
    /\ env_key \in {None, Some("k")}
    /\ service \in {"up", "unreachable"}
    /\ areq = [t \in AgentRequests |->
                  IF t = 1 THEN IdleAgentRequest ELSE ServedHealthCheck]
    /\ handler \in Handlers
    /\ pc = EntryPoint(handler)
    /\ request \in SeoRequests(handler)
    /\ fetched = FALSE
    /\ response_text = ""
    /\ stream \in ShortStreams
    /\ consumed = 0
    /\ OtherIdle /\ ParseIdle /\ ImageIdle /\ GenIdle

ArgNext == AgentNext \/ SeoNext

ArgSpec == ArgInit /\ [][ArgNext]_vars

\* the analysis service serving one request: the RPC of the tool of a Chat
\* run of the agent, or a request a client sends directly to a handler
ToolInit ==
    /\ seo_agent = None
    /\ created = 0
    /\ env_key = Some("k")
    /\ service = "up"
    /\ handler \in Handlers
    /\ request \in SeoRequests(handler)
    /\ areq = [t \in AgentRequests |->
                  IF t = 1 /\ FromTool THEN IdleAgentRequest ELSE ServedHealthCheck]
    /\ pc = EntryPoint(handler)
    /\ fetched = FALSE
    /\ response_text = ""
    /\ stream \in ShortStreams
    /\ consumed = 0
    /\ OtherIdle /\ ParseIdle /\ ImageIdle /\ GenIdle

ToolNext ==
    \/ \E t \in AgentRequests :
           \/ HealthCheck(t) \/ Chat(t) \/ AnalyzeSEO(t)
           \/ GetAgent(t) \/ CreateSeoAgent(t) \/ StoreAgent(t) \/ ReturnAgent(t)
           \/ InvokeAgent(t) \/ ModelTurn(t) \/ StopAtLimit(t) \/ CallSeoService(t)
           \/ ChatReturns(t)
    \/ SeoNext

ToolSpec == ToolInit /\ [][ToolNext]_vars

\* the Flask server serving NumFlaskRequests requests
FlaskInit ==
    /\ pc = "idle"
    /\ response_text = ""
    /\ OtherIdle /\ ParseIdle /\ RequestIdle /\ StreamIdle /\ ImageIdle /\ AgentIdle

FlaskNext ==
    \E f \in FlaskRequests : health(f) \/ analyze_seo(f) \/ chat(f) \/ get_agent(f)

FlaskSpec == FlaskInit /\ [][FlaskNext]_vars

\* a served /health request
ServedHealth ==
    [IdleFlaskRequest EXCEPT !.pc = "done", !.route = "/health",
         !.response = Some(HttpResponse(200, None, "", "healthy"))]

\* the two servers of the agent side by side: the gRPC servicer serving
\* NumAgentRequests requests and the Flask server serving one more request
HealthInit ==
    /\ seo_agent = None
    /\ created = 0
    /\ env_key = Some("k")
    /\ service = "up"
    /\ areq = [t \in AgentRequests |-> IdleAgentRequest]
    /\ flask_seo_agent = None
    /\ freq = [f \in FlaskRequests |->
                  IF f = 1 THEN IdleFlaskRequest ELSE ServedHealth]
    /\ pc = "idle"
    /\ response_text = ""
    /\ ProbeIdle /\ LogIdle
    /\ ParseIdle /\ RequestIdle /\ StreamIdle /\ ImageIdle /\ GenIdle

HealthNext == AgentNext \/ FlaskNext

HealthSpec == HealthInit /\ [][HealthNext]_vars

\* NumProbes runs of health_check.py, the server running or not
ProbeInit ==
    /\ server_up \in BOOLEAN
    /\ connects = 0
    /\ probe = [p \in Probes |-> IdleProbe]
    /\ pc = "idle"
    /\ response_text = ""
    /\ FlaskIdle /\ LogIdle
    /\ ParseIdle /\ RequestIdle /\ StreamIdle /\ ImageIdle /\ AgentIdle

ProbeNext ==
    \E p \in Probes :
        CreateChannel(p) \/ CreateStub(p) \/ CloseChannel(p) \/ check_health(p)

ProbeSpec == ProbeInit /\ [][ProbeNext]_vars

\* up to MaxLogCalls calls of setup_logger and get_logger in a process
LogInit ==
    /\ pc = "idle"
    /\ response_text = ""
    /\ OtherIdle /\ ParseIdle /\ RequestIdle /\ StreamIdle /\ ImageIdle /\ AgentIdle

LogNext == setup_logger \/ get_logger

LogSpec == LogInit /\ [][LogNext]_vars

(***************************************************************************)
(* Claims about _parse_gemini_response (checked under ParseSpec)           *)
(***************************************************************************)
\* The <<title, description>> pairs of the well-formed JSON objects in text
\* whose "title" and "description" are non-empty strings
PairOf(d) == <<d["title"].v, d["description"].v>>

IsFullObject(x) ==
    /\ x.ok
    /\ x.t = "dict"
    /\ {"title", "description"} \subseteq DOMAIN x.d
    /\ x.d["title"].t = "str" /\ x.d["title"].v # ""
    /\ x.d["description"].t = "str" /\ x.d["description"].v # ""

Braces(text, c) == {i \in 1..Len(text) : Ch(text, i) = c}

ObjectsIn(text) ==
    {SubSeq(text, i, j) : <<i, j>> \in
        {ij \in Braces(text, "{") \X Braces(text, "}") :
            ij[1] < ij[2] /\ JsonLoads(SubSeq(text, ij[1], ij[2])).ok}}

FullPairs(text) ==
    {PairOf(JsonLoads(o).d) : o \in {o \in ObjectsIn(text) : IsFullObject(JsonLoads(o))}}

\* C1: the function returns a pair only when both fields are non-empty;
\* every other run fails the request (context.abort, or an exception that
\* leaves the handler); a pair with an empty field is never returned.
C1_NoPartialResult ==
    pc = "done" =>
        \/ outcome = "returned" /\ title # "" /\ description # ""
        \/ outcome \in {"aborted", "raised"}

\* a pair returned after the fallback strategies filled the fields
C1_Witness ==
    /\ pc = "done" /\ outcome = "returned"
    /\ attempted = <<"json", "keypattern", "lines">>

\* C3 (as claimed): a text that contains a well-formed JSON object with
\* non-empty string title and description yields exactly the two values of
\* such an object, whatever surrounds or precedes it.
C3_JsonObjectDominates ==
    pc = "done" /\ FullPairs(response_text) # {} =>
        outcome = "returned" /\ <<title, description>> \in FullPairs(response_text)

\* group(1) of the first pattern of the list that matches, or None
FirstCapture(text, patterns) ==
    LET M == {n \in 1..Len(patterns) : ReSearch(text, patterns[n]) # None}
    IN  IF M = {} THEN None ELSE ReSearch(text, patterns[Min(M)])

\* the mixed-quote case of C4: no parseable JSON object, "title": "X" and
\* description: 'Y'
MixedQuotes(text) ==
    /\ ObjectsIn(text) = {}
    /\ ReSearch(text, title_patterns[1]) # None
    /\ ReSearch(text, description_patterns[4]) # None

\* C4 (as claimed): in the mixed-quote case both fields are the values
\* captured by the first matching pattern of their lists.
C4_MixedQuotesByKeyPattern ==
    pc = "done" /\ MixedQuotes(response_text) =>
        /\ outcome = "returned"
        /\ title = Strip(FirstCapture(response_text, title_patterns)[1])
        /\ description = Strip(FirstCapture(response_text, description_patterns)[1])

HasText(m) == m # None /\ Strip(m[1]) # ""

\* C4 (amended): the same, for captured values that are not only
\* whitespace; the values returned are the captures with the surrounding
\* whitespace stripped, and the line heuristic is not consulted.
C4_MixedQuotesNonBlank ==
    /\ pc = "done" /\ MixedQuotes(response_text)
    /\ HasText(FirstCapture(response_text, title_patterns))
    /\ HasText(FirstCapture(response_text, description_patterns))
    => /\ outcome = "returned"
       /\ attempted = <<"json", "keypattern">>
       /\ title = Strip(FirstCapture(response_text, title_patterns)[1])
       /\ description = Strip(FirstCapture(response_text, description_patterns)[1])

\* the mixed-quote case with a title that an earlier-listed pattern and a
\* later-listed pattern both match, the later one further left in the text
C4_Witness ==
    /\ pc = "done" /\ MixedQuotes(response_text)
    /\ outcome = "returned"
    /\ ReSearch(response_text, title_patterns[4]) # None
    /\ title # Strip(ReSearch(response_text, title_patterns[4])[1])

\* no pattern of either list matches anywhere in text
NoKeyPattern(text) ==
    \A n \in 1..4 : /\ ReSearch(text, title_patterns[n]) = None
                    /\ ReSearch(text, description_patterns[n]) = None

\* the stripped lines of text that read 'Keyword: X' for a keyword of kws
KeywordColonLines(text, kws) ==
    LET lines == Split(text, 1) IN
    {n \in 1..Len(lines) :
        \E kw \in kws : \E k \in 1..Len(Strip(lines[n])) :
            /\ MatchCI(Strip(lines[n]), kw, k)
            /\ k + Len(kw) <= IndexOf(Strip(lines[n]), ":", 1)}

\* the lines of text that contain a keyword of kws
KeywordLines(text, kws) ==
    LET lines == Split(text, 1) IN
    {n \in 1..Len(lines) : \E kw \in kws : ContainsLower(lines[n], kw)}

\* the X of the first 'Keyword: X' line, quotes and commas around it removed
FirstLineValue(text, kws) ==
    AfterColon(Strip(Split(text, 1)[Min(KeywordColonLines(text, kws))]), "")

\* C5 (as claimed): with no JSON object and no key-pattern form, a field
\* whose keyword stands on a line 'Keyword: X' is resolved to X, and a text
\* in which no line contains a keyword fails.
C5_LineHeuristicResolves ==
    pc = "done" /\ ObjectsIn(response_text) = {} /\ NoKeyPattern(response_text) =>
        /\ KeywordColonLines(response_text, title_keywords) # {}
             => title = FirstLineValue(response_text, title_keywords)
        /\ KeywordColonLines(response_text, description_keywords) # {}
             => description = FirstLineValue(response_text, description_keywords)
        /\ KeywordLines(response_text, title_keywords \cup description_keywords) = {}
             => outcome = "aborted"

\* C6 (as claimed): the function ends in a returned result or in the
\* "could not parse" abort reached after all three strategies ran, and in
\* no other way.
C6_ReturnOrParseFailure ==
    pc = "done" =>
        \/ outcome = "returned"
        \/ outcome = "aborted" /\ attempted = <<"json", "keypattern", "lines">>

\* C7 (as claimed): the failure message never carries the full raw text.
C7_NeverFullText ==
    outcome = "aborted" /\ response_text # "" => debug_response # response_text

EndsWith(s, suffix) ==
    Len(suffix) <= Len(s) /\ SubSeq(s, Len(s) - Len(suffix) + 1, Len(s)) = suffix

\* C7 (amended): the failure message ends with a preview that is the raw
\* text itself when that has at most 500 characters, and otherwise its first
\* 500 characters followed by "..."; a longer text is never carried in full.
C7_BoundedPreview ==
    outcome = "aborted" =>
        /\ EndsWith(details, "Response preview: " \o debug_response)
        /\ Len(response_text) <= PREVIEW_LENGTH => debug_response = response_text
        /\ Len(response_text) > PREVIEW_LENGTH =>
             /\ Len(debug_response) = PREVIEW_LENGTH + 3
             /\ SubSeq(debug_response, 1, PREVIEW_LENGTH)
                    = SubSeq(response_text, 1, PREVIEW_LENGTH)
             /\ EndsWith(debug_response, "...")

\* a failure on a text longer than the preview
C7_Witness == outcome = "aborted" /\ Len(response_text) > PREVIEW_LENGTH

\* C8 (as claimed): a non-empty value that a strategy left in a field is
\* not replaced by the strategies that run after it.
C8_EarliestStrategyWins ==
    [][/\ pc \in {"keypattern", "lines"} /\ title # "" => title' = title
       /\ pc \in {"keypattern", "lines"} /\ description # "" => description' = description]_vars

(***************************************************************************)
(* Claims about the stream consumers                                       *)
(***************************************************************************)
RECURSIVE StreamText(_, _)
\* the text fragments of the chunks of stream s from the n-th on, in order
StreamText(s, n) ==
    IF n > Len(s) THEN ""
    ELSE (IF s[n].text = None THEN "" ELSE s[n].text[1]) \o StreamText(s, n + 1)

FiniteStream(s) == \A i \in 1..Len(s) : s[i].kind = "chunk"

\* the request passes the input checks of its handler
PassesChecks ==
    /\ IF handler = "GenerateFromImageUrl"
       THEN /\ request.image_url # ""
            /\ request.download = "ok"
            /\ StartsAt(request.content_type, "image/", 1)
       ELSE validate_image(request.filename, request.content_type)
    /\ request.size <= MAX_IMAGE_BYTES
    /\ request.decodable

\* the handler has left its stream loop
LeftLoop == pc \in {"json", "keypattern", "lines", "final", "done"}

\* C9 (as claimed): once an SEO handler whose request passed the input
\* checks is done with a finite stream of chunks, the text it accumulated
\* is the concatenation, in delivery order, of the text fragments of all
\* chunks of the stream.
C9_TextIsConcatenation ==
    PassesChecks /\ LeftLoop /\ FiniteStream(stream) =>
        response_text = StreamText(stream, 1)

RECURSIVE SeenParts(_, _)
\* the parts of the chunks delivered to a request, in delivery order
SeenParts(chunks, n) ==
    IF n > Len(chunks) THEN <<>>
    ELSE (IF chunks[n].parts = None THEN <<>> ELSE chunks[n].parts[1])
         \o SeenParts(chunks, n + 1)

IsImage(p) == p.inline_data # None

SeenImages(r) == SelectSeq(SeenParts(req[r].seen, 1), IsImage)

RECURSIVE PartsText(_, _)
PartsText(ps, n) ==
    IF n > Len(ps) THEN ""
    ELSE (IF ~IsImage(ps[n]) /\ ps[n].text # None THEN ps[n].text[1] ELSE "")
         \o PartsText(ps, n + 1)

\* the message that the text of the request's own stream gives
OwnMessage(r) ==
    IF PartsText(SeenParts(req[r].seen, 1), 1) = "" THEN DefaultMessage
    ELSE Strip(PartsText(SeenParts(req[r].seen, 1), 1))

Answered(r) == req[r].response # None /\ req[r].response[1].code = "OK"

\* C2 (as claimed): the image bytes, mime type and message returned to a
\* request are those of an image part and of the text of that request's own
\* model stream, whatever other requests the shared servicer has served or
\* is serving.
C2_OwnStreamOnly ==
    \A r \in Requests : Answered(r) =>
        /\ \E i \in 1..Len(SeenImages(r)) :
              /\ SeenImages(r)[i].inline_data[1].data
                     = req[r].response[1].processed_image_data
              /\ SeenImages(r)[i].inline_data[1].mime_type
                     = req[r].response[1].mime_type
        /\ req[r].response[1].message = OwnMessage(r)

\* C10 (as claimed): a request whose stream delivered several image parts is
\* answered with the data of the last image part of that stream.
C10_LastImageReturned ==
    \A r \in Requests : Answered(r) /\ Len(SeenImages(r)) >= 2 =>
        req[r].response[1].processed_image_data
            = SeenImages(r)[Len(SeenImages(r))].inline_data[1].data

\* request r is the only one the service has been given so far
Alone(r) == \A q \in Requests \ {r} : req[q].pc = "idle"

\* C11 (as claimed): the mime type returned is the one declared by the first
\* image part of the stream; later image parts do not change it (stated for
\* a request that has the service to itself).
C11_FirstMimeKept ==
    \A r \in Requests : Answered(r) /\ Alone(r) /\ SeenImages(r) # <<>> =>
        req[r].response[1].mime_type = SeenImages(r)[1].inline_data[1].mime_type

\* a part that carries image data or text
Usable(p) == IsImage(p) \/ p.text # None

UsableParts(r) == SelectSeq(SeenParts(req[r].seen, 1), Usable)

\* C12 (as claimed): a request whose stream produced no chunk with usable
\* content is answered with a failure, never with a successful response,
\* whatever the service has served before.
C12_EmptyStreamFails ==
    \A r \in Requests : req[r].response # None /\ UsableParts(r) = <<>> =>
        req[r].response[1].code = "INTERNAL"

\* C14 (as claimed): once every call of generate is over, no instance field
\* and no file has changed.
C14_NoSideEffect ==
    (\A r \in Requests : req[r].pc \in {"idle", "done"}) =>
        /\ processed_image_data = None /\ mime_type = None /\ message = None
        /\ files = <<>>

\* C13 (as claimed): consumption stops at a chunk that declares a tool call:
\* no chunk that follows such a chunk is taken from the stream.
C13_StopsAtToolCall ==
    \A i \in 1..gen_consumed : \A j \in 1..(i - 1) :
        gen_stream[j].function_calls = None

(***************************************************************************)
(* Claims about the agent service (checked under AgentSpec)                *)
(***************************************************************************)
\* the run of request t is over
RunOver(t) == areq[t].result # None

\* every model turn of the run of request t requested the tool, and the run
\* is over
AlwaysTool(t) == RunOver(t) /\ areq[t].turns = Len(areq[t].steps)

C16_ToolFailureIsText ==
    \A t \in AgentRequests :
        /\ \A i \in 1..Len(areq[t].steps) :
               service # "up" =>
                   areq[t].steps[i].observation
                       = "Error analyzing image URL: " \o RpcErrorText(service)
        /\ areq[t].failed => areq[t].result[1].output = "Error: model unavailable"
        /\ areq[t].pc = "model" => areq[t].turns = Len(areq[t].steps)

\* a run that went on after two failed tool calls and ended with the
\* model's final answer
C16_Witness ==
    \E t \in AgentRequests :
        /\ service # "up" /\ Len(areq[t].steps) >= 2
        /\ areq[t].pc = "done" /\ areq[t].response[1].text = "final answer"

\* C17 (as claimed): a Chat run in which the model provider failed is
\* answered with success = False and the error.
C17_ModelFailureReported ==
    \A t \in AgentRequests : areq[t].failed /\ areq[t].response # None =>
        /\ ~areq[t].response[1].success
        /\ areq[t].response[1].error # ""

\* C18 (as claimed): every answered run returns the ordered list of all
\* tool calls made during the run with their results, also when it ended in
\* a model failure.
C18_AllStepsReturned ==
    \A t \in AgentRequests : RunOver(t) /\ areq[t].response # None =>
        areq[t].response[1].intermediate_steps = StepStrs(areq[t].steps, 1)

\* C19 (as claimed): create_seo_agent is called at most once and all
\* requests use the same agent instance.
C19_AgentCreatedOnce ==
    /\ created <= 1
    /\ \A t, u \in AgentRequests :
           areq[t].pc \in {"invoke", "model", "tool", "respond"}
           /\ areq[u].pc \in {"invoke", "model", "tool", "respond"}
           => areq[t].agent = areq[u].agent

\* the agent request t came without its required argument
MissingArgument(t) == areq[t].rpc \in {"Chat", "AnalyzeSEO"} /\ areq[t].arg = ""

\* the name the agent handler gives the missing argument
MissingError(rpc) ==
    IF rpc = "Chat" THEN "Missing message in request"
    ELSE "Missing image_url in request"

\* the SEO handler serves a GenerateFromImageUrl request without image_url
\* and is past its first check
MissingUrl ==
    /\ handler = "GenerateFromImageUrl"
    /\ request.image_url = ""
    /\ pc # "check_url"

\* C20: a Chat request with an empty message and an AnalyzeSEO request with
\* an empty image_url are answered with success = False and an error naming
\* the missing argument, without the agent being obtained or run, and as
\* long as only such requests and health checks came no agent is created;
\* a GenerateFromImageUrl request with an empty image_url is aborted with
\* INVALID_ARGUMENT "Image URL is required" without a download and without
\* reading the model stream.
C20_MissingArgumentRejected ==
    /\ \A t \in AgentRequests : MissingArgument(t) =>
           /\ areq[t].pc = "done"
           /\ areq[t].response =
                  Some(Response(areq[t].rpc, FALSE, "", MissingError(areq[t].rpc),
                                <<>>, ""))
           /\ areq[t].agent = None
           /\ areq[t].turns = 0
           /\ areq[t].steps = <<>>
    /\ (\A t \in AgentRequests :
            areq[t].rpc = "" \/ areq[t].rpc = "HealthCheck" \/ MissingArgument(t))
        => created = 0 /\ seo_agent = None
    /\ MissingUrl =>
           /\ pc = "done"
           /\ outcome = "aborted"
           /\ code = "INVALID_ARGUMENT"
           /\ details = "Image URL is required"
           /\ ~fetched
           /\ consumed = 0
           /\ response_text = ""

\* C20 witness: an agent request without its argument and a
\* GenerateFromImageUrl request without image_url have both been answered.
C20_Witness ==
    /\ \E t \in AgentRequests : MissingArgument(t) /\ areq[t].pc = "done"
    /\ MissingUrl /\ pc = "done"

(***************************************************************************)
(* Claims about input validation and the tool call                         *)
(***************************************************************************)
\* the request passes the checks that come before the size check
PassesEarlierChecks ==
    IF handler = "GenerateFromImageUrl"
    THEN /\ request.image_url # ""
         /\ request.download = "ok"
         /\ StartsAt(request.content_type, "image/", 1)
    ELSE validate_image(request.filename, request.content_type)

\* the handler has made its size check
SizeChecked ==
    PassesEarlierChecks /\ pc \notin {"check_url", "download", "content_type", "size"}

\* the handler went on to the model (and ended there or in the parser)
ReachedModel ==
    \/ pc \in {"stream", "json", "keypattern", "lines", "final"}
    \/ pc = "done" /\ outcome = "returned"
    \/ pc = "done" /\ attempted # <<>>
    \/ pc = "done" /\ StartsAt(details, ApiErrorPrefix(handler), 1)

\* C21: a payload of more than 10 * 1024 * 1024 bytes is rejected at the
\* size check (the call is aborted, the model never invoked), a decodable
\* payload of exactly that size goes on to the model, and a Chat run whose
\* tool call is answered with this rejection takes it as the text
\* observation "Error analyzing image URL: ..." of the step and goes on;
\* only a failure of the model ends the run early.
C21_OversizeRejectedAsToolError ==
    /\ SizeChecked /\ request.size > MAX_IMAGE_BYTES =>
           pc = "done" /\ outcome = "aborted" /\ consumed = 0 /\ ~ReachedModel
    /\ SizeChecked /\ request.size <= MAX_IMAGE_BYTES =>
           pc = "decode" \/ (request.decodable <=> ReachedModel)
    /\ \A t \in AgentRequests :
           SizeChecked /\ request.size > MAX_IMAGE_BYTES =>
               /\ \A i \in 1..Len(areq[t].steps) :
                      areq[t].steps[i].observation
                          = "Error analyzing image URL: " \o RpcErrorText("rejects")
               /\ areq[t].failed => areq[t].result[1].output = "Error: model unavailable"
               /\ areq[t].pc = "model" => areq[t].turns = Len(areq[t].steps)

\* C21 witness: a Chat run whose tool calls were answered with the size
\* rejection went on and ended with the model's final answer.
C21_Witness ==
    /\ FromTool /\ SizeChecked /\ request.size = MAX_IMAGE_BYTES + 1
    /\ \E t \in AgentRequests :
           /\ Len(areq[t].steps) >= 2
           /\ areq[t].pc = "done" /\ areq[t].response[1].text = "final answer"

\* C22 (as claimed): GenerateFromImageUrl ends a download whose content type
\* is not image/* with INVALID_ARGUMENT and the details naming the content
\* type, and an image payload that cannot be decoded with INVALID_ARGUMENT
\* and the details "Error processing image: ..."; the status first set is
\* the one the caller receives.
C22_ValidationFailuresDistinct ==
    /\ handler = "GenerateFromImageUrl" /\ pc = "done"
    /\ request.image_url # "" /\ request.download = "ok"
    => /\ ~StartsAt(request.content_type, "image/", 1) =>
              /\ code = "INVALID_ARGUMENT"
              /\ details = "URL does not point to an image. Content-Type: "
                               \o request.content_type
       /\ /\ StartsAt(request.content_type, "image/", 1)
          /\ ~TooLarge(request.size)
          /\ ~request.decodable
          => /\ code = "INVALID_ARGUMENT"
             /\ details = "Error processing image: cannot identify image file"

\* the request passes the content-type check of its handler
ContentTypeOk ==
    IF handler = "GenerateFromImageUrl"
    THEN StartsAt(request.content_type, "image/", 1)
    ELSE validate_image(request.filename, request.content_type)

\* C23: the handlers check content type, then size, then decodability: the
\* size check is reached only by a request with an accepted content type,
\* the decode step only by one that also passed the size check, the model
\* only by one that passed all three; a request that fails a check is
\* aborted without the model stream being opened or read, and
\* GenerateFromImage reports the first check that fails in that order.
C23_ValidationPrecedesModel ==
    /\ pc = "size" => ContentTypeOk
    /\ pc = "decode" => ContentTypeOk /\ ~TooLarge(request.size)
    /\ ReachedModel => PassesChecks
    /\ ~PassesChecks /\ pc = "done" =>
           outcome = "aborted" /\ consumed = 0 /\ attempted = <<>> /\ response_text = ""
    /\ handler = "GenerateFromImage" /\ pc = "done" =>
           /\ ~ContentTypeOk => details = "Ge#ersiz resim format!."
           /\ ContentTypeOk /\ TooLarge(request.size) =>
                  details = "Resim dosyas! #ok b%y%k. Maksimum 10MB desteklenir."
           /\ ContentTypeOk /\ ~TooLarge(request.size) /\ ~request.decodable =>
                  details = "Resim dosyas! i$lenirken hata: cannot identify image file"

\* C23 witness: a GenerateFromImage request with an accepted content type
\* that is both too large and undecodable has been aborted.
C23_Witness ==
    /\ handler = "GenerateFromImage" /\ pc = "done"
    /\ ContentTypeOk /\ TooLarge(request.size) /\ ~request.decodable

(***************************************************************************)
(* Claims about the Flask server, the health checks and the loggers        *)
(***************************************************************************)
\* C25 (as claimed): a POST to /chat or /analyze-seo whose body has the
\* required key is answered with HTTP 200 and success = true, a body
\* without the key with HTTP 400.
C25_FlaskAnswersWithAgentOutput ==
    \A f \in FlaskRequests :
        freq[f].pc = "done" /\ freq[f].route \in {"/chat", "/analyze-seo"} =>
            IF HasKey(freq[f].data, RequiredKey(freq[f].route))
            THEN /\ freq[f].response[1].status = 200
                 /\ freq[f].response[1].success = Some(TRUE)
            ELSE freq[f].response[1].status = 400

\* the answer of the gRPC HealthCheck
Healthy == Some(Response("HealthCheck", TRUE, "healthy", "", <<>>, ""))

\* request t is answered by HealthCheck in this step
HealthCheckStep(t) == areq[t].pc = "idle" /\ areq'[t].rpc = "HealthCheck"

\* C24: in every state of the servicer a request can be answered by
\* HealthCheck, whatever the other requests did (agent not created,
\* created, failed requests); the answer is status "healthy"; the step
\* leaves seo_agent, the number of agents created, the environment and the
\* other requests as they were, and the request neither obtains nor runs
\* the agent.  GET /health of the Flask server answers 200 "healthy" too.
C24_HealthCheckAlwaysHealthy ==
    /\ [](\A t \in AgentRequests :
             /\ areq[t].pc = "idle" => ENABLED HealthCheck(t)
             /\ areq[t].rpc = "HealthCheck" =>
                    /\ areq[t].pc = "done" /\ areq[t].response = Healthy
                    /\ areq[t].agent = None /\ areq[t].turns = 0)
    /\ [](\A f \in FlaskRequests :
             freq[f].route = "/health" =>
                 /\ freq[f].response[1].status = 200
                 /\ freq[f].response[1].output = "healthy")
    /\ [][\A t \in AgentRequests : HealthCheckStep(t) =>
             /\ seo_agent' = seo_agent /\ created' = created
             /\ env_key' = env_key /\ flask_seo_agent' = flask_seo_agent
             /\ \A u \in AgentRequests \ {t} : areq'[u] = areq[u]]_vars

\* C24 witness: a health check was answered beside a request that failed,
\* on a servicer whose agent exists.
C24_Witness ==
    /\ seo_agent # None
    /\ \E t, u \in AgentRequests :
           /\ areq[t].rpc = "HealthCheck" /\ areq[t].response = Healthy
           /\ areq[u].pc = "done" /\ ~areq[u].response[1].success

\* C26 (as claimed): check_health returns True only when the server at
\* localhost:50071 is running, and False when it is down.
C26_HealthyOnlyIfResponding ==
    \A p \in Probes : probe[p].pc = "done" =>
        probe[p].result = Some(server_up)

\* call i configured the logger n: setup_logger ran for it to the end, by
\* itself or from get_logger(n)
Configures(i, n) ==
    /\ log_calls[i].returned = Some(n)
    /\ \/ log_calls[i].fn = "setup_logger"
       \/ log_calls[i].fn = "get_logger" /\ log_calls[i].name = Some(n)

Configured(n) == \E i \in 1..Len(log_calls) : Configures(i, n)

C27_AnalyzeSEOReturnsAnalysis ==
    \A t \in AgentRequests :
        /\ areq[t].rpc = "AnalyzeSEO" /\ areq[t].arg # ""
        /\ areq[t].pc = "done" /\ areq[t].agent # None
        => /\ areq[t].response[1].success
           /\ areq[t].response[1].image_url = areq[t].arg
           /\ areq[t].response[1].text # ""

\* request t leaves line 28-31 of get_agent in this step
CreateStep(t) == areq[t].pc = "create" /\ areq'[t].pc # "create"

\* C30 (as claimed): when GOOGLE_API_KEY is unset or empty, get_agent raises
\* "GOOGLE_API_KEY environment variable is required": no agent is created
\* and the request ends with success = False and that error.
C30_KeyRequired ==
    [][\A t \in AgentRequests :
          CreateStep(t) /\ env_key \in {None, Some("")} =>
              /\ created' = created
              /\ areq'[t].pc = "done"
              /\ areq'[t].response
                     = Failure(t, "GOOGLE_API_KEY environment variable is required")]_vars

\* generate raised for request r and the handler answered
Failed(r) == req[r].response # None /\ req[r].response[1].code = "INTERNAL"

\* the data is an image of the stream of request q
ImageOf(data, q) == data # <<>> /\ data[1] = q

\* C28 (as claimed): a request for which generate raised is answered with
\* status INTERNAL, empty processed_image_data, empty mime_type and a
\* message starting with "Error: ", and an image that its stream delivered
\* before it failed is returned neither to it nor to a request called after
\* it was answered.
C28_FailedStreamLeavesNothing ==
    \A q \in Requests : Failed(q) =>
        /\ req[q].response[1].processed_image_data = <<>>
        /\ req[q].response[1].mime_type = ""
        /\ StartsAt(req[q].response[1].message, "Error: ", 1)
        /\ \A r \in Requests :
               q \in req[r].after /\ req[r].response # None =>
                   ~ImageOf(req[r].response[1].processed_image_data, q)
====
